---------------------------- MODULE Spec2Model ----------------------------
(***************************************************************************)
(* Docify serverless functions: the LLM response validator/repairer of the *)
(* unified orchestrator, the block filter and grid optimiser of the LLM    *)
(* analyzer, and the orchestrator's processing run.                        *)
(*                                                                         *)
(* JSON values are modelled structurally.  A block of a response is a      *)
(* record                                                                  *)
(*   isdict  - the list entry is a JSON object (else the string "x")       *)
(*   absent  - the required keys the object does not carry                 *)
(*   id, type, size, title, content - the values of the keys it carries    *)
(*             ("" is the empty string)                                    *)
(*   meta    - "absent": no metadata key, "dict": metadata is an object,   *)
(*             "nondict": metadata is the string "x"                       *)
(* and a parsed top-level value is a record                                *)
(*   top        - "object", or "array" for the JSON array [1,2]            *)
(*   summary    - "absent", "empty" (""), "number" (5) or "text" ("x")     *)
(*   blocksKind - "absent", "notlist" ("blocks":"none") or "list"          *)
(*   blocks     - the entries of the list                                  *)
(* A model text is such a value together with the shape it is written in.  *)
(***************************************************************************)
EXTENDS Integers, Sequences, FiniteSets, TLC

VARIABLES
    text,       \* the model text handed to the validators: [shape, data]
    altered,    \* how many places of the response deviate from the well-formed one
    rpc,        \* position of the response check
    parsed,     \* result of the orchestrator's _parse_llm_response
    gemini,     \* result of the analyzer's call_gemini_api / main steps 7-8
    pc,         \* position of the orchestrator run
    req,        \* the trigger request: [trigger, json, keys]
    apiKey,     \* GEMINI_API_KEY is set
    docData,    \* the local document_data of the run: "unbound" or "bound"
    scraped,    \* the scraped content the run works on
    enhanced,   \* result of _perform_enhanced_analysis: [kind, error]
    research,   \* research_results: one outcome per executed query
    synthesis,  \* result of the final synthesis round: [kind, error]
    toolLog,    \* number of entries of tool_usage_log
    analysisBlocks, \* the blocks of _generate_comprehensive_blocks
    result,     \* the result process_document_comprehensive returns
    doc,        \* the document in the store: [status, blocks]
    writes,     \* the update_document calls of the run: [status, ok]
    raised,     \* the pipeline steps in which an exception was raised
    http,       \* the HTTP response of main: [code, success]
    payload,    \* the values a trigger payload carries: [id, url, instructions, user]
    resolved,   \* what each function resolved from each payload shape
    anPc,       \* position of the analyzer's main
    anReq,      \* the analyzer's request: [trigger, form, idKey, status, other]
    anDoc,      \* the document the store holds: [db, content, imported, status]
    anDocId,    \* the local document_id of main: "none" or the id
    anRetry,    \* retry_count of call_gemini_api
    anCalls,    \* number of requests sent to the Gemini API
    anSleeps,   \* sleeps between the attempts: the error retried and the delay
    anReads,    \* number of get_document calls
    anWrites,   \* the update_document calls of the run: [status, ok]
    anErr,      \* the message of the exception main's handler caught
    anResp,      \* the response of main
    crPc,       \* position of the crawl: "loop", "finish" or "done"
    crMax,      \* max_pages
    crPending,  \* pages_to_visit
    crVisited,  \* visited_urls
    crPages,    \* all_pages, each page by its url
    crCrawled,  \* pages_crawled
    crClock,    \* seconds elapsed since start_time
    crFetched,  \* the fetches of the traversal, in order: [url, at]
    crLinks,    \* the links found on the page fetched last
    crEnqueued, \* the appends to pages_to_visit: [url, at]
    crResult,   \* what scrape_website_with_requests returns
    sfPc,       \* position of smart_fetch_html
    sfKey,      \* BROWSERLESS_API_KEY is set
    sfHtml,     \* html_content, by its length
    sfMethod,   \* fetch_method
    sfTried,    \* tried_rendering
    sfLog,      \* the outcomes of the requests made, in order
    sfRaised,   \* an exception left the function
    ocPc,       \* position of optimize_content_for_analysis
    ocIn,       \* its argument: [runs, keyword]
    ocOut,      \* what it returns, as runs
    suStore,    \* the preferences the user service stores: [credits, history]
    suInitial,  \* the preferences stored before the first invocation
    suRun,      \* per invocation of the signup-credits main: [pc, seen, prefs, service, written, success]
    ccPc,       \* position in the assembly of the crawl result
    ccPages,    \* all_pages: the stored pages, by content type and lengths
    ccOut,      \* combined_content: the pieces appended, in order
    plPc,       \* position of the scraper in its main
    plDoc,      \* the document record: status, scraped content, analysis blocks
    plRuns,     \* the analyzer runs started by the update events
    plLog,      \* the statuses written to the document, with their writers
    plScraped   \* scraped_data of the scraper: its content is text or empty

respVars == <<text, altered, rpc, parsed, gemini>>

orchVars == <<pc, req, apiKey, docData, scraped, enhanced, research, synthesis,
              toolLog, analysisBlocks, result, doc, writes, raised, http>>

trigVars == <<payload, resolved>>

anVars == <<anPc, anReq, anDoc, anDocId, anRetry, anCalls, anSleeps, anReads, anWrites,
            anErr, anResp>>

vars == <<text, altered, rpc, parsed, gemini, pc, req, apiKey, docData,
          scraped, enhanced, research, synthesis, toolLog, analysisBlocks, result,
          doc, writes, raised, http, payload, resolved, anPc, anReq, anDoc,
          anDocId, anRetry, anCalls, anSleeps, anReads, anWrites, anErr, anResp,
          crPc, crMax, crPending, crVisited, crPages, crCrawled, crClock,
          crFetched, crLinks, crEnqueued, crResult,
          sfPc, sfKey, sfHtml, sfMethod, sfTried, sfLog, sfRaised,
          ocPc, ocIn, ocOut,
          suStore, suInitial, suRun,
          ccPc, ccPages, ccOut,
          plPc, plDoc, plRuns, plLog, plScraped>>

\* The variables each part of the model leaves alone.
crawlVars == <<crPc, crMax, crPending, crVisited, crPages, crCrawled, crClock,
               crFetched, crLinks, crEnqueued, crResult>>

fetchVars == <<sfPc, sfKey, sfHtml, sfMethod, sfTried, sfLog, sfRaised>>

contentVars == <<ocPc, ocIn, ocOut>>

signupVars == <<suStore, suInitial, suRun>>

combineVars == <<ccPc, ccPages, ccOut>>

pipelineVars == <<plPc, plDoc, plRuns, plLog, plScraped>>

besidesResponse == <<orchVars, trigVars, anVars, crawlVars, fetchVars, contentVars, signupVars, combineVars, pipelineVars>>
besidesOrch == <<trigVars, anVars, crawlVars, fetchVars, contentVars, signupVars, combineVars, pipelineVars>>
besidesTrigger == <<respVars, orchVars, anVars, crawlVars, fetchVars, contentVars, signupVars, combineVars, pipelineVars>>
besidesAnalyzer == <<altered, rpc, parsed, orchVars, trigVars, crawlVars, fetchVars, contentVars, signupVars, combineVars, pipelineVars>>
besidesCrawl == <<respVars, orchVars, trigVars, anVars, fetchVars, contentVars, signupVars, combineVars, pipelineVars>>
besidesFetch == <<respVars, orchVars, trigVars, anVars, crawlVars, contentVars, signupVars, combineVars, pipelineVars>>
besidesContent == <<respVars, orchVars, trigVars, anVars, crawlVars, fetchVars, signupVars, combineVars, pipelineVars>>
besidesSignup == <<respVars, orchVars, trigVars, anVars, crawlVars, fetchVars, contentVars, combineVars, pipelineVars>>
besidesCombine == <<respVars, orchVars, trigVars, anVars, crawlVars, fetchVars, contentVars, signupVars, pipelineVars>>
besidesPipeline == <<respVars, orchVars, trigVars, anVars, crawlVars, fetchVars, contentVars, signupVars, combineVars>>

-----------------------------------------------------------------------------
(* Bounds of the model *)

MaxBlocks == 7
MaxAlterations == 1
MaxPages == 3
MaxLinks == 2
MaxRuns == 3
MaxInvocations == 2

(* Program constants *)

OrchMaxBlocks == 6
AnalyzerMaxBlocks == 6
GridLimit == 8
OrchLlmBlocks == 4
OrchBlockLimit == 6
MaxResearchQueries == 3
BaseDelay == 1

RaisedPrefix == "Failed to generate analysis: "

MaxRetries == 3

-----------------------------------------------------------------------------
(* The block schema *)

RequiredFields == {"id", "type", "size", "title", "content"}

ValidTypes == {"summary", "key_points", "architecture", "mermaid", "code",
               "api_reference", "guide", "comparison", "best_practices",
               "troubleshooting"}

ValidSizes == {"small", "medium", "large"}

SizeValue(size) ==
    CASE size = "small" -> 1
      [] size = "medium" -> 2
      [] size = "large" -> 3
      [] OTHER -> 2

Id(i) == "id-" \o ToString(i)

\* The i-th block of a well-formed response.
GoodBlock(i) ==
    [isdict |-> TRUE, absent |-> {}, id |-> Id(i), type |-> "key_points",
     size |-> "medium", title |-> "t", content |-> "c", meta |-> "absent"]

GoodBlocks(n) == [i \in 1..n |-> GoodBlock(i)]

EmptyDict ==
    [top |-> "object", summary |-> "absent", blocksKind |-> "absent",
     blocks |-> <<>>]

\* A block object read as a top-level value: it has no summary and no blocks.
BlockAsTop(b) == EmptyDict

-----------------------------------------------------------------------------
(* DocifyUnifiedOrchestrator._validate_llm_schema *)

RECURSIVE BlocksValidNoUnique(_, _, _)
BlocksValidNoUnique(blocks, i, seen) ==
    IF i > Len(blocks) THEN TRUE
    ELSE LET b == blocks[i] IN
         IF ~b.isdict THEN FALSE
         ELSE IF b.absent # {} THEN FALSE
         ELSE IF b.type \notin ValidTypes THEN FALSE
         ELSE IF b.size \notin ValidSizes THEN FALSE
         ELSE IF b.meta = "nondict" THEN FALSE
         ELSE BlocksValidNoUnique(blocks, i + 1, seen \cup {b.id})

RECURSIVE BlocksValid(_, _, _)
BlocksValid(blocks, i, seen) ==
    IF i > Len(blocks) THEN TRUE
    ELSE LET b == blocks[i] IN
         IF ~b.isdict THEN FALSE
         ELSE IF b.absent # {} THEN FALSE
         ELSE IF b.id \in seen THEN FALSE
         ELSE IF b.type \notin ValidTypes THEN FALSE
         ELSE IF b.size \notin ValidSizes THEN FALSE
         ELSE IF b.meta = "nondict" THEN FALSE
         ELSE BlocksValid(blocks, i + 1, seen \cup {b.id})

ValidateLlmSchema(data) ==
    IF data.top # "object" THEN FALSE
    ELSE IF data.summary = "absent" THEN FALSE
    ELSE IF data.blocksKind # "list" THEN FALSE
    ELSE IF Len(data.blocks) = 0 THEN FALSE
    ELSE IF ~BlocksValid(data.blocks, 1, {}) THEN FALSE
    ELSE IF Len(data.blocks) > OrchMaxBlocks THEN FALSE
    ELSE TRUE

-----------------------------------------------------------------------------
(* Model texts.  With J the compact JSON text of the value (json.dumps     *)
(* with separators "," and ":"), the shapes are                            *)
(*   empty           ""                                                    *)
(*   blank           "  \n"                                                *)
(*   json            J                                                     *)
(*   json_multiline  json.dumps(value, indent=2)                           *)
(*   fenced          "```json\n" + J + "\n```"                             *)
(*   trailing_comma  J with "," inserted before its last character         *)
(*   prose           "Note: the page has no structure"                     *)
(* json.loads and the regular expressions are evaluated on these texts.    *)

Shapes == {"empty", "blank", "json", "json_multiline", "fenced",
           "trailing_comma", "prose"}

DecodeError == [top |-> "decode_error"]

IsBlank(t) == t.shape \in {"empty", "blank"}

\* text.startswith('{') and text.endswith('}')
LooksLikeObject(t) ==
    /\ t.shape \in {"json", "json_multiline", "trailing_comma"}
    /\ t.data.top = "object"

\* json.loads(text)
DirectLoads(t) ==
    IF t.shape \in {"json", "json_multiline"} THEN t.data ELSE DecodeError

\* A block written without inner braces.
FlatBlock(b) == b.isdict /\ b.meta # "dict"

\* re.findall(r'(\{[^{}]*\{[^{}]*\}[^{}]*\})', text): an object holding exactly
\* one inner object.  In J that is the whole value when exactly one entry of
\* its list is an object and that block is flat (the entries that are no
\* objects carry no brace), and otherwise every block that carries a
\* metadata object.
RECURSIVE MetaBlocks(_, _)
MetaBlocks(blocks, i) ==
    IF i > Len(blocks) THEN <<>>
    ELSE IF blocks[i].isdict /\ blocks[i].meta = "dict"
         THEN <<BlockAsTop(blocks[i])>> \o MetaBlocks(blocks, i + 1)
         ELSE MetaBlocks(blocks, i + 1)

NestedMatches(t) ==
    IF t.shape \in {"empty", "blank", "prose"} \/ t.data.top # "object"
       \/ t.data.blocksKind # "list"
    THEN <<>>
    ELSE LET objects == SelectSeq(t.data.blocks, LAMBDA b : b.isdict)
         IN  IF Len(objects) = 1 /\ FlatBlock(objects[1])
             THEN IF t.shape = "trailing_comma" THEN <<DecodeError>>
                  ELSE <<t.data>>
             ELSE MetaBlocks(t.data.blocks, 1)

\* The candidates of the four json_patterns, in order, each already passed
\* through json.loads.
ExtractCandidates(t) ==
    LET fence == IF t.shape = "fenced" /\ t.data.top = "object"
                 THEN <<t.data>> ELSE <<>>
        generic == <<>>
        multiline == IF t.shape = "json_multiline" /\ t.data.top = "object"
                     THEN <<t.data>> ELSE <<>>
    IN fence \o generic \o NestedMatches(t) \o multiline

\* _fix_json_issues followed by json.loads: "unchanged" when the repair
\* leaves the text as it is.
FixedLoads(t) ==
    CASE t.shape \in {"fenced", "trailing_comma"} -> t.data
      [] t.shape = "prose" -> DecodeError
      [] OTHER -> [top |-> "unchanged"]

-----------------------------------------------------------------------------
(* DocifyUnifiedOrchestrator._generate_fallback_analysis *)

FallbackBlocks ==
    << [isdict |-> TRUE, absent |-> {}, id |-> "fallback-summary",
        type |-> "summary", size |-> "large", title |-> "Analysis Summary",
        content |-> "c", meta |-> "dict"],
       [isdict |-> TRUE, absent |-> {}, id |-> "fallback-content",
        type |-> "key_points", size |-> "medium", title |-> "Content Analysis",
        content |-> "c", meta |-> "dict"] >>

GenerateFallbackAnalysis(t) ==
    [top |-> "object", summary |-> "text", blocksKind |-> "list",
     blocks |-> FallbackBlocks]

-----------------------------------------------------------------------------
(* DocifyUnifiedOrchestrator._parse_llm_response *)

IsValue(v) == v.top \in {"object", "array"}

RECURSIVE FirstValid(_, _)
FirstValid(cands, i) ==
    IF i > Len(cands) THEN 0
    ELSE IF IsValue(cands[i]) /\ ValidateLlmSchema(cands[i]) THEN i
    ELSE FirstValid(cands, i + 1)

\* The function with the repair tried before the extraction.
ParseLlmResponseRepairFirst(t) ==
    IF IsBlank(t)
    THEN [success |-> FALSE, format |-> "empty", data |-> EmptyDict]
    ELSE IF LooksLikeObject(t) /\ IsValue(DirectLoads(t))
            /\ ValidateLlmSchema(DirectLoads(t))
    THEN [success |-> TRUE, format |-> "json", data |-> DirectLoads(t)]
    ELSE IF IsValue(FixedLoads(t)) /\ ValidateLlmSchema(FixedLoads(t))
    THEN [success |-> TRUE, format |-> "fixed_json", data |-> FixedLoads(t)]
    ELSE IF FirstValid(ExtractCandidates(t), 1) # 0
    THEN [success |-> TRUE, format |-> "extracted_json",
          data |-> ExtractCandidates(t)[FirstValid(ExtractCandidates(t), 1)]]
    ELSE [success |-> FALSE, format |-> "fallback",
          data |-> GenerateFallbackAnalysis(t)]

ParseLlmResponse(t) ==
    IF IsBlank(t)
    THEN [success |-> FALSE, format |-> "empty", data |-> EmptyDict]
    ELSE IF LooksLikeObject(t) /\ IsValue(DirectLoads(t))
            /\ ValidateLlmSchema(DirectLoads(t))
    THEN [success |-> TRUE, format |-> "json", data |-> DirectLoads(t)]
    ELSE IF FirstValid(ExtractCandidates(t), 1) # 0
    THEN [success |-> TRUE, format |-> "extracted_json",
          data |-> ExtractCandidates(t)[FirstValid(ExtractCandidates(t), 1)]]
    ELSE IF IsValue(FixedLoads(t)) /\ ValidateLlmSchema(FixedLoads(t))
    THEN [success |-> TRUE, format |-> "fixed_json", data |-> FixedLoads(t)]
    ELSE [success |-> FALSE, format |-> "fallback",
          data |-> GenerateFallbackAnalysis(t)]

-----------------------------------------------------------------------------
(* LLM analyzer: call_gemini_api, from the extraction of the JSON text to  *)
(* the returned response.                                                  *)

Min(a, b) == IF a < b THEN a ELSE b

RECURSIVE SumSeq(_, _)
SumSeq(seq, i) == IF i > Len(seq) THEN 0 ELSE seq[i] + SumSeq(seq, i + 1)

\* The commas between n entries.
Separators(n) == IF n = 0 THEN 0 ELSE n - 1

\* The length of the compact JSON text of a block: "x" for an entry that is
\* no object, else the keys the block has, and its metadata ({"priority":
\* "high"} or "x").  A quote of the JSON text is written ' here.
BlockJsonLength(b) ==
    IF ~b.isdict THEN Len("'x'")
    ELSE LET entries ==
                  (IF "id" \in b.absent THEN <<>> ELSE <<Len("'id':''") + Len(b.id)>>)
               \o (IF "type" \in b.absent THEN <<>> ELSE <<Len("'type':''") + Len(b.type)>>)
               \o (IF "size" \in b.absent THEN <<>> ELSE <<Len("'size':''") + Len(b.size)>>)
               \o (IF "title" \in b.absent THEN <<>> ELSE <<Len("'title':''") + Len(b.title)>>)
               \o (IF "content" \in b.absent THEN <<>>
                   ELSE <<Len("'content':''") + Len(b.content)>>)
               \o (CASE b.meta = "dict" -> <<Len("'metadata':{'priority':'high'}")>>
                     [] b.meta = "nondict" -> <<Len("'metadata':'x'")>>
                     [] OTHER -> <<>>)
         IN  Len("{}") + SumSeq(entries, 1) + Separators(Len(entries))

\* The length of J for an object: its summary ("", 5 or "x") and its blocks
\* ("none" or the list).
JsonLength(v) ==
    LET entries ==
              (CASE v.summary = "empty" -> <<Len("'summary':''")>>
                 [] v.summary = "number" -> <<Len("'summary':5")>>
                 [] v.summary = "text" -> <<Len("'summary':'x'")>>
                 [] OTHER -> <<>>)
           \o (CASE v.blocksKind = "notlist" -> <<Len("'blocks':'none'")>>
                 [] v.blocksKind = "list" ->
                      <<Len("'blocks':[]")
                        + SumSeq([i \in 1..Len(v.blocks) |-> BlockJsonLength(v.blocks[i])], 1)
                        + Separators(Len(v.blocks))>>
                 [] OTHER -> <<>>)
    IN  Len("{}") + SumSeq(entries, 1) + Separators(Len(entries))

\* The column at which json.loads gives up on J with the trailing comma: the
\* closing brace, which is the comma's place plus one.
DecodeColumn(t) ==
    IF JsonLength(t.data) = Len("{}") THEN Len("{,")
    ELSE JsonLength(t.data) + 1

\* str(parse_error) of the JSONDecodeError.
DecodeMessage(t) ==
    "Expecting property name enclosed in double quotes: line 1 column "
    \o ToString(DecodeColumn(t)) \o " (char " \o ToString(DecodeColumn(t) - 1) \o ")"

\* json.loads(re.search(r'\{[\s\S]*\}', generated_text).group(0))
GeminiLoads(t) ==
    CASE t.shape = "empty" -> [top |-> "empty_text"]
      [] t.shape \in {"blank", "prose"} -> [top |-> "no_json"]
      [] t.data.top # "object" -> [top |-> "no_json"]
      [] t.shape = "trailing_comma" -> DecodeError
      [] OTHER -> t.data

\* The condition of the list comprehension that cleans the blocks.
BlockPasses(b) ==
    /\ "id" \notin b.absent /\ b.id # ""
    /\ "type" \notin b.absent /\ b.type # ""
    /\ "size" \notin b.absent /\ b.size # ""
    /\ "title" \notin b.absent /\ b.title # ""
    /\ "content" \notin b.absent /\ b.content # ""
    /\ b.type \in ValidTypes
    /\ b.size \in ValidSizes

WithDefaultMetadata(b) ==
    IF b.meta = "absent" THEN [b EXCEPT !.meta = "dict"] ELSE b

FilterBlocks(blocks) ==
    LET kept == SelectSeq(blocks, BlockPasses)
        cut == SubSeq(kept, 1, Min(Len(kept), AnalyzerMaxBlocks))
    IN [i \in 1..Len(cut) |-> WithDefaultMetadata(cut[i])]

GeminiFallbackBlocks ==
    << [isdict |-> TRUE, absent |-> {}, id |-> "fallback-summary",
        type |-> "summary", size |-> "large", title |-> "Document Summary",
        content |-> "c", meta |-> "dict"] >>

Raised(msg) == [outcome |-> "raised", error |-> msg, data |-> EmptyDict]

CallGeminiValidate(t) ==
    LET v == GeminiLoads(t) IN
    CASE v.top = "empty_text" -> Raised("Empty text in Gemini API response")
      [] v.top = "no_json" -> Raised("No JSON found in Gemini response")
      [] v.top = "decode_error" ->
            Raised("Invalid JSON in Gemini response: " \o DecodeMessage(t))
      [] OTHER ->
         IF v.summary \in {"absent", "empty"}
         THEN Raised("Invalid response structure: missing summary")
         ELSE IF v.blocksKind # "list"
         THEN Raised("Invalid response structure: blocks must be an array")
         ELSE IF v.summary = "number"
         THEN Raised("object of type 'int' has no len()")
         ELSE IF \E i \in 1..Len(v.blocks) : ~v.blocks[i].isdict
         THEN Raised("'str' object has no attribute 'get'")
         ELSE [outcome |-> "ok", error |-> "",
               data |-> [v EXCEPT !.blocks =
                            IF Len(FilterBlocks(v.blocks)) = 0
                            THEN GeminiFallbackBlocks
                            ELSE FilterBlocks(v.blocks)]]

-----------------------------------------------------------------------------
(* LLM analyzer: optimize_block_sizes *)

RECURSIVE TotalUnits(_, _)
TotalUnits(blocks, i) ==
    IF i > Len(blocks) THEN 0
    ELSE SizeValue(blocks[i].size) + TotalUnits(blocks, i + 1)

RECURSIVE ReduceSizes(_, _, _)
ReduceSizes(blocks, i, total) ==
    IF i > Len(blocks) THEN blocks
    ELSE IF blocks[i].size = "large" /\ total > GridLimit
         THEN ReduceSizes([blocks EXCEPT ![i].size = "medium"], i + 1, total - 1)
         ELSE ReduceSizes(blocks, i + 1, total)

OptimizeBlockSizes(blocks) ==
    IF TotalUnits(blocks, 1) > GridLimit
    THEN ReduceSizes(blocks, 1, TotalUnits(blocks, 1))
    ELSE blocks

-----------------------------------------------------------------------------
(* Checking one model response: the environment produces the text, the     *)
(* orchestrator parses it, the analyzer validates it and optimises sizes.  *)

JsonShapes == {"json", "json_multiline", "fenced", "trailing_comma"}

WellFormed(n) ==
    [top |-> "object", summary |-> "text", blocksKind |-> "list",
     blocks |-> GoodBlocks(n)]

\* A response of six blocks whose first content is eighteen characters long:
\* with the trailing comma its text is 500 characters long.
PaddedResponse ==
    [WellFormed(6) EXCEPT !.blocks[1].content = "cccccccccccccccccc"]

MkText(shape, data) ==
    [shape |-> shape,
     data |-> IF shape \in JsonShapes THEN data ELSE WellFormed(0)]

NoParse == [success |-> FALSE, format |-> "none", data |-> EmptyDict]
NoGemini == [outcome |-> "none", error |-> "", data |-> EmptyDict]


-----------------------------------------------------------------------------
(* The orchestrator run: DocifyUnifiedOrchestrator.process_document_comprehensive *)
(* called by main.  The request body carries non-empty values for the keys  *)
(* it has; scraped content is "content" (non-empty text), "empty" (no text) *)
(* or "error_text" (the fallback record of a failed scrape).                *)

Take(seq, n) == SubSeq(seq, 1, Min(Len(seq), n))

Requests ==
    {[trigger |-> t, json |-> TRUE, keys |-> k] :
        t \in {"event", "http"}, k \in SUBSET {"$id", "documentId", "url"}}
    \cup {[trigger |-> t, json |-> FALSE, keys |-> {}] : t \in {"event", "http"}}

\* The exceptions a Gemini call raises, by message.
LlmErrors == {"429 Rate limit exceeded", "The model is overloaded",
              "API key not valid"}

\* str.lower() and the substring test, on the messages of the model.
LowerChar(c) ==
    CASE c = "A" -> "a" [] c = "B" -> "b" [] c = "C" -> "c" [] c = "D" -> "d"
      [] c = "E" -> "e" [] c = "F" -> "f" [] c = "G" -> "g" [] c = "H" -> "h"
      [] c = "I" -> "i" [] c = "J" -> "j" [] c = "K" -> "k" [] c = "L" -> "l"
      [] c = "M" -> "m" [] c = "N" -> "n" [] c = "O" -> "o" [] c = "P" -> "p"
      [] c = "Q" -> "q" [] c = "R" -> "r" [] c = "S" -> "s" [] c = "T" -> "t"
      [] c = "U" -> "u" [] c = "V" -> "v" [] c = "W" -> "w" [] c = "X" -> "x"
      [] c = "Y" -> "y" [] c = "Z" -> "z" [] OTHER -> c

RECURSIVE Lower(_)
Lower(str) ==
    IF Len(str) <= 1 THEN LowerChar(str)
    ELSE LET half == Len(str) \div 2
         IN  Lower(SubSeq(str, 1, half)) \o Lower(SubSeq(str, half + 1, Len(str)))

Contains(str, sub) ==
    \E i \in 1..(Len(str) - Len(sub) + 1) : SubSeq(str, i, i + Len(sub) - 1) = sub

RetryKeywords == {"rate limit", "timeout", "network", "server error", "429", "500",
                  "502", "503", "504", "resource exhausted", "quota exceeded",
                  "temporarily unavailable", "unavailable", "connection", "dns", "ssl"}

\* The delay with a linear backoff.
DelayLinear(retry_count) == BaseDelay * (retry_count + 1)

\* The delay slept before the retry that follows attempt retry_count + 1.
Delay(retry_count) == BaseDelay * (2 ^ retry_count)

\* The messages the analyzer's retry test classifies as transient.
IsRetryable(msg) == \E k \in RetryKeywords : Contains(Lower(msg), k)

ResearchOutcomes == {"insights", "no_insights", "failed"}

\* _extract_document_data: the message of the ValueError it raises, "" if none.
ExtractError(r) ==
    LET idKey == IF r.trigger = "event" THEN "$id" ELSE "documentId"
        missing == (IF idKey \in r.keys THEN <<>> ELSE <<"document_id">>)
                   \o (IF "url" \in r.keys THEN <<>> ELSE <<"url">>)
    IN  IF ~r.json
        THEN "Failed to extract document data: Expecting value: line 1 column 1 (char 0)"
        ELSE IF missing = <<>> THEN ""
        ELSE IF Len(missing) = 2
        THEN "Failed to extract document data: Missing required fields: document_id, url"
        ELSE "Failed to extract document data: Missing required fields: " \o missing[1]

\* _validate_block_structure
ValidateBlockStructure(b) ==
    /\ b.isdict
    /\ b.absent = {}
    /\ b.type \in ValidTypes
    /\ b.size \in ValidSizes
    /\ b.meta # "nondict"

\* str(hash(str(block))): the number differs from process to process and is
\* written "hash".
HashText == "hash"

\* The block the handler of _normalize_block_structure returns.
NormalizationFallback ==
    [isdict |-> TRUE, absent |-> {}, id |-> "normalized-" \o HashText,
     type |-> "summary", size |-> "small", title |-> "Normalized Block",
     content |-> "Block content normalized due to formatting issues.",
     meta |-> "dict"]

\* _normalize_block_structure: a missing key gets its default and a block
\* without metadata the default metadata.  block.get raises for an entry
\* that is no object, and the assignment of the priority for metadata that
\* is no object: the handler then returns the fallback block.
NormalizeBlockStructure(b) ==
    IF ~b.isdict \/ b.meta = "nondict" THEN NormalizationFallback
    ELSE [isdict |-> TRUE, absent |-> {},
          id |-> IF "id" \in b.absent THEN "block-" \o HashText ELSE b.id,
          type |-> IF "type" \in b.absent THEN "summary" ELSE b.type,
          size |-> IF "size" \in b.absent THEN "medium" ELSE b.size,
          title |-> IF "title" \in b.absent THEN "Analysis Block" ELSE b.title,
          content |-> IF "content" \in b.absent THEN "Content not available"
                      ELSE b.content,
          meta |-> "dict"]

GeneratedBlock(id, type, size, title) ==
    [isdict |-> TRUE, absent |-> {}, id |-> id, type |-> type, size |-> size,
     title |-> title, content |-> "c", meta |-> "dict"]

\* The loop over the first four LLM blocks: each valid block gets its id
\* suffixed with the current length of the list and is appended normalised.
RECURSIVE AppendLlmBlocks(_, _, _)
AppendLlmBlocks(acc, src, i) ==
    IF i > Len(src) THEN acc
    ELSE IF ValidateBlockStructure(src[i])
         THEN AppendLlmBlocks(
                Append(acc, NormalizeBlockStructure(
                    [src[i] EXCEPT !.id = @ \o "-" \o ToString(Len(acc))])),
                src, i + 1)
         ELSE AppendLlmBlocks(acc, src, i + 1)

\* _generate_comprehensive_blocks.  The comprehensive_result of this pipeline
\* carries neither code_blocks nor links, so the code-examples and
\* related-links blocks are never added.
GenerateComprehensiveBlocks(enh, data, res) ==
    LET isDict   == enh.kind = "parsed" /\ data.top = "object"
        first    == IF isDict /\ data.summary \in {"text", "number"}
                    THEN GeneratedBlock("llm-summary", "summary", "large", "AI Analysis Summary")
                    ELSE GeneratedBlock("comprehensive-summary", "summary", "large", "Analysis: t")
        withLlm  == IF isDict /\ data.blocksKind = "list"
                    THEN AppendLlmBlocks(<<first>>, Take(data.blocks, OrchLlmBlocks), 1)
                    ELSE <<first>>
        withKey  == Append(withLlm,
                       GeneratedBlock("key-insights", "key_points", "medium", "Content Analysis"))
        withRes  == IF \E i \in 1..Len(res) : res[i] = "insights"
                    THEN Append(withKey,
                            GeneratedBlock("research-insights", "research", "medium",
                                           "Research & Context"))
                    ELSE withKey
    IN  Take(withRes, OrchBlockLimit)

\* The sanitiser of _update_document_with_analysis_only keeps the entries
\* that are objects with the five required keys, and of each its metadata
\* only when that is an object.
RECURSIVE SanitizeBlocks(_, _)
SanitizeBlocks(bs, i) ==
    IF i > Len(bs) THEN <<>>
    ELSE IF bs[i].isdict /\ bs[i].absent = {}
         THEN << IF bs[i].meta = "dict" THEN bs[i]
                 ELSE [bs[i] EXCEPT !.meta = "absent"] >>
              \o SanitizeBlocks(bs, i + 1)
         ELSE SanitizeBlocks(bs, i + 1)

FinalResultKeys == {"success", "documentId", "title", "description", "url", "content",
                    "word_count", "character_count", "blocks", "metadata",
                    "analysis_summary", "research_insights"}

ErrorResultKeys == {"success", "error", "document_id", "processing_time", "tool_usage"}

NoResult == [success |-> FALSE, error |-> "", keys |-> {}, blocks |-> <<>>]
NoStep == [kind |-> "none", error |-> ""]
NoHttp == [code |-> 0, success |-> FALSE]
NewDocument == [status |-> "pending", blocks |-> <<>>]

OrchIdle ==
    /\ pc = "idle"
    /\ req = [trigger |-> "http", json |-> FALSE, keys |-> {}]
    /\ apiKey = FALSE
    /\ docData = "unbound"
    /\ scraped = "none"
    /\ enhanced = NoStep
    /\ research = <<>>
    /\ synthesis = NoStep
    /\ toolLog = 0
    /\ analysisBlocks = <<>>
    /\ result = NoResult
    /\ doc = NewDocument
    /\ writes = <<>>
    /\ raised = {}
    /\ http = NoHttp

-----------------------------------------------------------------------------
(* The trigger payload: _extract_document_data of the orchestrator and the  *)
(* extraction of the scraper's main.  A payload carries, for the document   *)
(* id, the url, the instructions and the user id, no key ("absent"), the    *)
(* empty string ("") or a value ("v"); the event shape names the keys $id   *)
(* and user_id, the HTTP shape documentId and userId.                       *)

FieldValues == {"absent", "", "v"}

Payloads == [id : FieldValues, url : FieldValues,
             instructions : FieldValues, user : FieldValues]

Triggers == {"event", "http"}

Truthy(v) == v \notin {"absent", ""}

\* The body of the request in the shape of the trigger: key -> value.
BodyOf(trigger, p) ==
    IF trigger = "event"
    THEN [k \in {"$id", "documentId", "url", "instructions", "user_id", "userId"} |->
            CASE k = "$id" -> p.id
              [] k = "url" -> p.url
              [] k = "instructions" -> p.instructions
              [] k = "user_id" -> p.user
              [] OTHER -> "absent"]
    ELSE [k \in {"$id", "documentId", "url", "instructions", "user_id", "userId"} |->
            CASE k = "documentId" -> p.id
              [] k = "url" -> p.url
              [] k = "instructions" -> p.instructions
              [] k = "userId" -> p.user
              [] OTHER -> "absent"]

NoTuple == [document_id |-> "none", url |-> "none", instructions |-> "none",
            user_id |-> "none"]

NotResolved == [outcome |-> "none", error |-> "", tuple |-> NoTuple,
                code |-> 0, success |-> FALSE, effects |-> {}]

DefaultInstructions == "Analyze this content comprehensively using all available tools"

\* _extract_document_data, and the error result the run returns when it
\* raises: nothing was fetched, asked or written by then.
OrchResolve(trigger, body) ==
    LET document_id == IF trigger = "event" THEN body["$id"] ELSE body["documentId"]
        user_id     == IF trigger = "event" THEN body["user_id"] ELSE body["userId"]
        missing     == (IF Truthy(document_id) THEN <<>> ELSE <<"document_id">>)
                       \o (IF Truthy(body["url"]) THEN <<>> ELSE <<"url">>)
    IN  IF missing # <<>>
        THEN [outcome |-> "error",
              error |-> "Failed to extract document data: Failed to extract document data: Missing required fields: "
                        \o (IF Len(missing) = 2 THEN "document_id, url" ELSE missing[1]),
              tuple |-> NoTuple, code |-> 200, success |-> FALSE, effects |-> {}]
        ELSE [outcome |-> "extracted", error |-> "",
              tuple |-> [document_id |-> document_id, url |-> body["url"],
                         instructions |-> IF Truthy(body["instructions"])
                                          THEN body["instructions"]
                                          ELSE DefaultInstructions,
                         user_id |-> user_id],
              code |-> 0, success |-> FALSE, effects |-> {}]

\* The scraper's main up to the extraction, for an event of the documents
\* collection or an HTTP call: an event without url and instructions is
\* skipped as "not a creation event"; a failed extraction is answered with
\* 500 and, document_id being None, without a status write.
ScraperResolve(trigger, body) ==
    LET idKey == IF trigger = "event" THEN "$id" ELSE "documentId"
    IN  IF trigger = "event" /\ ~(Truthy(body["url"]) /\ Truthy(body["instructions"]))
        THEN [outcome |-> "skipped", error |-> "", tuple |-> NoTuple,
              code |-> 200, success |-> TRUE, effects |-> {}]
        ELSE IF Truthy(body[idKey]) /\ Truthy(body["url"])
        THEN [outcome |-> "extracted", error |-> "",
              tuple |-> [NoTuple EXCEPT !.document_id = body[idKey],
                                        !.url = body["url"]],
              code |-> 0, success |-> FALSE, effects |-> {}]
        ELSE [outcome |-> "error",
              error |-> IF trigger = "event"
                        THEN "Event data missing required fields ($id or url)"
                        ELSE "API request missing required fields (documentId or url)",
              tuple |-> NoTuple, code |-> 500, success |-> FALSE, effects |-> {}]

Functions == {"orchestrator", "scraper"}

TriggerIdle ==
    /\ payload = [id |-> "absent", url |-> "absent", instructions |-> "absent",
                  user |-> "absent"]
    /\ resolved = [f \in Functions |-> [t \in Triggers |-> NotResolved]]

-----------------------------------------------------------------------------
(* The analyzer's main.  The request body is absent ("none"), a dict, a    *)
(* JSON string ("json") or a string that is no JSON ("notjson"); a dict or *)
(* JSON body carries its document id under idKey (or under no key), a      *)
(* status field or none, and possibly another key (url).  Events are those *)
(* of the documents collection.                                            *)

AnRequests ==
    {[trigger |-> t, form |-> f, idKey |-> k, status |-> st, other |-> o] :
        t \in Triggers, f \in {"dict", "json"},
        k \in {"none", "documentId", "document_id", "$id"},
        st \in {"absent", "analyzing", "completed"}, o \in BOOLEAN}
    \cup {[trigger |-> t, form |-> f, idKey |-> "none", status |-> "absent",
           other |-> FALSE] : t \in Triggers, f \in {"none", "notjson"}}

AnDocuments ==
    {[db |-> "ok", content |-> c, imported |-> i, status |-> "analyzing"] :
        c \in {"text", "empty", "absent"}, i \in BOOLEAN}
    \cup {[db |-> d, content |-> "absent", imported |-> FALSE, status |-> "none"] :
            d \in {"not_found", "server_error"}}

DbErrorMessage(db) ==
    IF db = "not_found" THEN "Document with the requested ID could not be found."
    ELSE "Server Error"

\* The body is falsy: None or the empty dict.
BodyFalsy(r) ==
    \/ r.form = "none"
    \/ r.form = "dict" /\ r.idKey = "none" /\ r.status = "absent" /\ ~r.other

\* The event filter at the head of main: "" when the run goes on, else the
\* message of the skip response.
EventSkip(r) ==
    IF r.trigger # "event" THEN ""
    ELSE IF BodyFalsy(r) \/ r.form = "notjson" \/ r.status = "absent"
    THEN "Skipped: Not a document update event"
    ELSE IF r.status # "analyzing"
    THEN "Skipped: Document status is not analyzing"
    ELSE ""

\* Step 1: the document id main resolves from the body, "none" if it finds none.
ResolveDocumentId(r) ==
    IF r.form \in {"dict", "json"} /\ r.idKey # "none" THEN "d1" ELSE "none"

\* The handler resolves the id anew, from the key documentId only.
HandlerDocumentId(r) ==
    IF r.form \in {"dict", "json"} /\ r.idKey = "documentId" THEN "d1" ELSE "none"

\* The error categorisation of main's handler.
Categorize(msg) ==
    LET e == Lower(msg)
    IN  IF Contains(e, "rate limit") \/ Contains(e, "quota")
        THEN [message |-> "Analysis service is busy. Please try again in a few minutes.",
              retryable |-> TRUE, action |-> "retry_later"]
        ELSE IF Contains(e, "timeout") \/ Contains(e, "network")
        THEN [message |-> "Connection issue occurred. The analysis may still complete.",
              retryable |-> TRUE, action |-> "check_later"]
        ELSE IF Contains(e, "no scraped content")
        THEN [message |-> "Document content is not available. Please check the URL and try scraping again.",
              retryable |-> FALSE, action |-> "rescrape"]
        ELSE IF Contains(e, "json") \/ Contains(e, "invalid response")
        THEN [message |-> "Analysis format issue. We'll retry with a different approach.",
              retryable |-> TRUE, action |-> "retry"]
        ELSE IF Contains(e, "document with the requested id could not be found")
        THEN [message |-> "Document not found. Please check the document ID and try again.",
              retryable |-> FALSE, action |-> "check_document"]
        ELSE [message |-> "Analysis failed. Please try again.",
              retryable |-> TRUE, action |-> "retry"]

AnNoResponse == [success |-> FALSE, kind |-> "none", error |-> "", message |-> "",
                 retryable |-> FALSE, action |-> "", statusCode |-> 0,
                 documentId |-> "none"]

AnBadRequest(msg) == [AnNoResponse EXCEPT !.kind = "bad_request", !.error = msg,
                                           !.statusCode = 400]

AnSkipped(msg, id) == [AnNoResponse EXCEPT !.success = TRUE, !.kind = "skipped",
                                            !.message = msg, !.statusCode = 200,
                                            !.documentId = id]

AnalyzerIdle ==
    /\ anPc = "idle"
    /\ anReq = [trigger |-> "http", form |-> "none", idKey |-> "none",
                status |-> "absent", other |-> FALSE]
    /\ anDoc = [db |-> "ok", content |-> "absent", imported |-> FALSE,
                status |-> "none"]
    /\ anDocId = "none"
    /\ anRetry = 0
    /\ anCalls = 0
    /\ anSleeps = <<>>
    /\ anReads = 0
    /\ anWrites = <<>>
    /\ anErr = ""
    /\ anResp = AnNoResponse

-----------------------------------------------------------------------------
(* The crawl: scrape_website_with_requests.  The site has the pages of     *)
(* SiteUrls; a page may also link to another domain and to a path of the   *)
(* skip list, and a page may be an index that links to the seven pages of  *)
(* IndexLinks.  A fetch of the traversal is smart_fetch_html followed by    *)
(* the extraction; the environment decides what it yields, how long it     *)
(* takes, and what links the page carries.                                 *)

TimeBudget == 300
SleepDelay == 1

Seed == "/"
IndexLinks == <<"/1", "/2", "/3", "/4", "/5", "/6", "/7">>
SiteUrls == {"/", "/a", "/b"} \cup {IndexLinks[i] : i \in 1..Len(IndexLinks)}
ExternalUrls == {"ext"}
SkippedUrls == {"/login"}
LinkTargets == {"/", "/a", "/b"} \cup ExternalUrls \cup SkippedUrls

LinkLists == UNION {[1..n -> LinkTargets] : n \in 0..MaxLinks} \cup {IndexLinks}

\* What the fetch and the extraction of one page yield: no body or an
\* exception ("failed"), less than 50 characters of content ("thin"), a page
\* of another content type ("other"), or an HTML page ("html").
FetchOutcomes == {"failed", "thin", "other", "html"}
Stored(o) == o \in {"other", "html"}

FetchDurations == {1, 150, 301}

Elements(seq) == {seq[i] : i \in 1..Len(seq)}

\* The condition of the while loop.
LoopContinuesNoPageBudget(pending, crawled, max, clock) ==
    /\ pending # <<>>
    /\ clock < TimeBudget

LoopContinues(pending, crawled, max, clock) ==
    /\ pending # <<>>
    /\ crawled < max
    /\ clock < TimeBudget

\* pages_to_visit.pop(0) without the removal.
PopKeeps(pending) == pending

\* What pages_to_visit.pop(0) leaves in the queue.
Pop(pending) == Tail(pending)

\* The condition under which the links of a stored page are followed.
FollowsLinksAlways(crawled, max, o) == o = "html"

FollowsLinks(crawled, max, o) == crawled < max /\ o = "html"

\* Same domain and no path of the skip list.
OnSite(u) == u \in SiteUrls

\* The condition under which a link is appended to pages_to_visit.
Admissible(u, visited, pending) ==
    /\ OnSite(u)
    /\ u \notin visited
    /\ u \notin Elements(pending)

\* The loop over the links of a page from link i on: the queue it leaves.
RECURSIVE FindLinks(_, _, _, _, _)
FindLinks(links, i, visited, pending, max) ==
    IF i > Len(links) THEN pending
    ELSE IF Admissible(links[i], visited, pending)
    THEN LET q == Append(pending, links[i])
         IN  IF Len(q) > max * 3 THEN q
             ELSE FindLinks(links, i + 1, visited, q, max)
    ELSE FindLinks(links, i + 1, visited, pending, max)

NoCrawlResult == [kind |-> "none", pages_crawled |-> 0, pages |-> <<>>,
                  fallbacks |-> 0]

CrawlIdle ==
    /\ crPc = "idle"
    /\ crMax = 1
    /\ crPending = <<>>
    /\ crVisited = {}
    /\ crPages = <<>>
    /\ crCrawled = 0
    /\ crClock = 0
    /\ crFetched = <<>>
    /\ crLinks = <<>>
    /\ crEnqueued = {}
    /\ crResult = NoCrawlResult

-----------------------------------------------------------------------------
(* smart_fetch_html.  A body is modelled by its length, no body by None.   *)
(* A request raises, answers with a status other than 200, or answers 200  *)
(* with a body.                                                            *)

None == 0 - 1

JsThreshold == 10000

BodySizes == {0, 5000, 9000, 10000, 20000}

RequestOutcomes ==
    {[kind |-> k, len |-> 0] : k \in {"exception", "non200"}}
    \cup {[kind |-> "ok", len |-> n] : n \in BodySizes}

Strategies == <<"modern-browser", "mobile", "bot-friendly">>

StrategyNames == Elements(Strategies)

FetchMethods == {"basic", "browserless-io", "rendertron-free"} \cup StrategyNames

\* len(html_content or '')
BodyLen(html) == IF html = None THEN 0 ELSE html

\* not html_content or len(html_content) < 10000
NeedsRendering(html) == BodyLen(html) < JsThreshold

\* One pass of the loop over the header profiles: the body and the method it
\* leaves, whether it breaks out of the loop, and whether an exception
\* leaves the function.
StrategyAttemptUncaught(html, method, name, o) ==
    IF o.kind = "ok"
    THEN [html |-> o.len, method |-> name, stop |-> o.len >= JsThreshold,
          raised |-> FALSE]
    ELSE [html |-> html, method |-> method, stop |-> o.kind = "exception",
          raised |-> o.kind = "exception"]

StrategyAttempt(html, method, name, o) ==
    IF o.kind = "ok"
    THEN [html |-> o.len, method |-> name, stop |-> o.len >= JsThreshold,
          raised |-> FALSE]
    ELSE [html |-> html, method |-> method, stop |-> FALSE, raised |-> FALSE]

\* One request to a rendering service: its body is taken when it is longer
\* than the one at hand.
RenderAttempt(html, method, name, o) ==
    IF o.kind = "ok" /\ o.len > BodyLen(html)
    THEN [html |-> o.len, method |-> name]
    ELSE [html |-> html, method |-> method]

\* The profile tried after name, "render" after the last.
NextStrategy(name) ==
    LET i == CHOOSE k \in 1..Len(Strategies) : Strategies[k] = name
    IN  IF i < Len(Strategies) THEN Strategies[i + 1] ELSE "render"

FetchIdle ==
    /\ sfPc = "idle"
    /\ sfKey = FALSE
    /\ sfHtml = None
    /\ sfMethod = "basic"
    /\ sfTried = FALSE
    /\ sfLog = <<>>
    /\ sfRaised = FALSE

-----------------------------------------------------------------------------
(* The response check at rest, for the parts of the model that do not use it *)

ResponseIdle ==
    /\ text = MkText("empty", WellFormed(0))
    /\ altered = 0
    /\ rpc = "idle"
    /\ parsed = NoParse
    /\ gemini = NoGemini

-----------------------------------------------------------------------------
(* LLM analyzer: optimize_content_for_analysis.  A string is modelled as   *)
(* the sequence of its runs: a run of non-whitespace characters ("word"),  *)
(* of spaces ("space"), one line break "\r\n" ("newline") or one blank    *)
(* line "\n\n" ("blank"), with its length.  The argument also says whether *)
(* the keyword expression matches its text.                                *)

MaxContentLength == 50000
MaxSections == 10
EllipsisLength == 3

RunLengths == {1, 2, 49999, 50000, 50001}

Runs ==
    {[kind |-> k, len |-> n] : k \in {"word", "space"}, n \in RunLengths}
    \cup {[kind |-> "newline", len |-> 2], [kind |-> "blank", len |-> 2]}

Contents ==
    {[runs |-> r, keyword |-> k] :
        r \in UNION {[1..n -> Runs] : n \in 0..MaxRuns}, k \in BOOLEAN}

\* len(content)
RECURSIVE ContentLen(_)
ContentLen(runs) ==
    IF runs = <<>> THEN 0 ELSE Head(runs).len + ContentLen(Tail(runs))

\* content[:n]
RECURSIVE Truncate(_, _)
Truncate(runs, n) ==
    IF runs = <<>> \/ n <= 0 THEN <<>>
    ELSE IF Head(runs).len <= n
    THEN <<Head(runs)>> \o Truncate(Tail(runs), n - Head(runs).len)
    ELSE <<[Head(runs) EXCEPT !.len = n]>>

\* content[:max_content_length] + '...' for a content over the limit.
Shorten(runs) ==
    IF ContentLen(runs) > MaxContentLength
    THEN Append(Truncate(runs, MaxContentLength),
                [kind |-> "word", len |-> EllipsisLength])
    ELSE runs

\* re.sub(r'\s+', ' ', content): every stretch of whitespace becomes one space.
RECURSIVE CollapseWhitespace(_, _)
CollapseWhitespace(runs, inspace) ==
    IF runs = <<>> THEN <<>>
    ELSE IF Head(runs).kind = "word"
    THEN <<Head(runs)>> \o CollapseWhitespace(Tail(runs), FALSE)
    ELSE IF inspace THEN CollapseWhitespace(Tail(runs), TRUE)
    ELSE <<[kind |-> "space", len |-> 1]>> \o CollapseWhitespace(Tail(runs), TRUE)

\* content.split('\n\n'): the sections between the blank lines.
RECURSIVE SplitSections(_, _)
SplitSections(runs, section) ==
    IF runs = <<>> THEN <<section>>
    ELSE IF Head(runs).kind = "blank"
    THEN <<section>> \o SplitSections(Tail(runs), <<>>)
    ELSE SplitSections(Tail(runs), Append(section, Head(runs)))

\* The first loop: the sections the keyword expression matches, at most
\* max_sections of them.
RECURSIVE KeywordSections(_, _, _)
KeywordSections(sections, matches, chosen) ==
    IF sections = <<>> \/ Len(chosen) >= MaxSections THEN chosen
    ELSE KeywordSections(Tail(sections), Tail(matches),
            IF Head(matches) THEN Append(chosen, Head(sections)) ELSE chosen)

\* The second loop: the sections not yet chosen, up to max_sections.
RECURSIVE OtherSections(_, _)
OtherSections(sections, chosen) ==
    IF sections = <<>> \/ Len(chosen) >= MaxSections THEN chosen
    ELSE OtherSections(Tail(sections),
            IF \E i \in 1..Len(chosen) : chosen[i] = Head(sections)
            THEN chosen ELSE Append(chosen, Head(sections)))

\* '\n\n'.join(important_sections)
RECURSIVE JoinSections(_)
JoinSections(sections) ==
    IF sections = <<>> THEN <<>>
    ELSE IF Len(sections) = 1 THEN Head(sections)
    ELSE Head(sections) \o <<[kind |-> "blank", len |-> 2]>>
         \o JoinSections(Tail(sections))

OptimizeContentForAnalysis(c) ==
    IF ContentLen(c.runs) = 0 THEN <<>>
    ELSE LET collapsed == CollapseWhitespace(Shorten(c.runs), FALSE)
             sections  == SplitSections(collapsed, <<>>)
             matches   == [i \in 1..Len(sections) |-> c.keyword]
         IN  JoinSections(OtherSections(sections,
                 KeywordSections(sections, matches, <<>>)))

ContentIdle ==
    /\ ocPc = "idle"
    /\ ocIn = [runs |-> <<>>, keyword |-> FALSE]
    /\ ocOut = <<>>

-----------------------------------------------------------------------------
(* The signup-credits function.  The stored preferences of the user are    *)
(* modelled by the value of 'credits' (kind "absent" for no such key,      *)
(* "none" for None, "int" for the number n) and the number of entries of   *)
(* 'credit_history'.                                                       *)

CreditsAmount == 10

Invocations == 1..MaxInvocations

Credits(n) == [kind |-> "int", n |-> n]
AbsentCredits == [kind |-> "absent", n |-> 0]
NoneCredits == [kind |-> "none", n |-> 0]

StoredCredits == {AbsentCredits, NoneCredits, Credits(0), Credits(5)}

Preferences == {[credits |-> c, history |-> h] : c \in StoredCredits, h \in {0, 1}}

NoPreferences == [credits |-> AbsentCredits, history |-> 0]

\* get_user_preferences: the stored preferences, or {} when the read raises.
GetUserPreferences(stored, ok) == IF ok THEN stored ELSE NoPreferences

\* current_prefs.get('credits', 0) + CREDITS_AMOUNT raises for None.
CreditsAddable(prefs) == prefs.credits.kind # "none"

\* updated_prefs of update_user_credits.
UpdatedPreferences(prefs) ==
    [credits |-> Credits(prefs.credits.n + CreditsAmount),
     history |-> prefs.history + 1]

\* An invocation: what the store held when it read (seen), what it read
\* (prefs), what update_prefs did if called (service), what it wrote.
NotStarted == [pc |-> "start", seen |-> NoPreferences, prefs |-> NoPreferences,
               service |-> "none", written |-> NoPreferences, success |-> FALSE]

SignupIdle ==
    /\ suStore = NoPreferences
    /\ suInitial = NoPreferences
    /\ suRun = [i \in Invocations |-> [NotStarted EXCEPT !.pc = "idle"]]

-----------------------------------------------------------------------------
(* The combined content of a crawl result.  A page is its content type,    *)
(* the lengths of its title, URL and content and, for a PDF page, the page *)
(* count and the file size of its metadata; a piece of combined_content is *)
(* its kind and length.                                                    *)

MaxCombinedLength == 75000
TruncationFloor == 100
RuleLength == 50

ContentLengths == {1000, 74840, 80000}
\* The metadata of the PDF extractor: the page count of the document and the
\* number of bytes of the response.
PdfMetadata == {[pages |-> 1, file_size |-> 26], [pages |-> 1, file_size |-> 1000],
                [pages |-> 12, file_size |-> 80000]}

\* The HTML extractor returns no metadata.
NoMetadata == [pages |-> 0, file_size |-> 0]

\* len(str(metadata)) of a page, 0 for a page without metadata.
MetadataLength(page) ==
    IF page.content_type = "pdf"
    THEN Len("{'pages': ") + Len(ToString(page.metadata.pages))
         + Len(", 'file_size': ") + Len(ToString(page.metadata.file_size)) + Len("}")
    ELSE 0

\* The stored pages: a title of 5 and a URL of 16 characters.
StoredPages ==
    {[content_type |-> "html", title |-> 5, url |-> 16, content |-> n,
      metadata |-> NoMetadata] : n \in ContentLengths}
    \cup {[content_type |-> "pdf", title |-> 5, url |-> 16, content |-> n,
           metadata |-> m] : n \in ContentLengths, m \in PdfMetadata}

\* Only an HTML page has its links followed: a crawl that stored several
\* pages stored an HTML page first.
PageLists ==
    {pages \in UNION {[1..n -> StoredPages] : n \in 1..MaxPages} :
        Len(pages) > 1 => pages[1].content_type = "html"}

\* The number of digits of a count of files.
Digits(n) == IF n < 10 THEN 1 ELSE 2

\* len(type_header): two rules of '=' between newlines around the title line.
TypeHeaderLength(content_type, n) ==
    1 + RuleLength + 1
    + Len(content_type) + Len(" CONTENT (") + Digits(n) + Len(" files)")
    + 1 + RuleLength + 1

\* len(page_content): the metadata line is there for non-empty metadata.
PageContentLength(page) ==
    1 + Len("--- ") + page.title + Len(" (") + page.url + Len(")")
    + (IF MetadataLength(page) > 0
       THEN 1 + Len("[Metadata: ") + MetadataLength(page) + Len("]")
       ELSE 0)
    + Len(" ---") + 1 + page.content

\* pages_by_type: the content types in the order of their first page.
RECURSIVE TypesInOrder(_, _, _)
TypesInOrder(pages, i, seen) ==
    IF i > Len(pages) THEN seen
    ELSE IF \E k \in 1..Len(seen) : seen[k] = pages[i].content_type
    THEN TypesInOrder(pages, i + 1, seen)
    ELSE TypesInOrder(pages, i + 1, Append(seen, pages[i].content_type))

PagesOfType(pages, content_type) ==
    SelectSeq(pages, LAMBDA p : p.content_type = content_type)

NoPieces == [pieces |-> <<>>, current_length |-> 0]

Piece(kind, length) == [kind |-> kind, length |-> length]

\* The loop over the pages of one type from page j on.
RECURSIVE AddPages(_, _, _)
AddPages(pages, j, st) ==
    IF j > Len(pages) THEN st
    ELSE IF pages[j].content > 0 /\ st.current_length < MaxCombinedLength
    THEN LET size == PageContentLength(pages[j])
             remaining_space == MaxCombinedLength - st.current_length
         IN  IF st.current_length + size <= MaxCombinedLength
             THEN AddPages(pages, j + 1,
                           [pieces |-> Append(st.pieces, Piece("page", size)),
                            current_length |-> st.current_length + size])
             ELSE IF remaining_space > TruncationFloor
             THEN [st EXCEPT !.pieces =
                        Append(@, Piece("truncated", remaining_space - 10 + Len("...")))]
             ELSE st
    ELSE AddPages(pages, j + 1, st)

\* The loop over the content types from type i on.
RECURSIVE AddTypes(_, _, _, _)
AddTypes(pages, types, i, st) ==
    IF i > Len(types) \/ st.current_length >= MaxCombinedLength THEN st
    ELSE LET group  == PagesOfType(pages, types[i])
             header == TypeHeaderLength(types[i], Len(group))
             headed == IF st.current_length + header <= MaxCombinedLength
                       THEN [pieces |-> Append(st.pieces, Piece("header", header)),
                             current_length |-> st.current_length + header]
                       ELSE st
         IN  AddTypes(pages, types, i + 1, AddPages(group, 1, headed))

\* combined_content for the stored pages.
CombinedContent(pages) ==
    AddTypes(pages, TypesInOrder(pages, 1, <<>>), 1, NoPieces).pieces

RECURSIVE SumLengths(_, _)
SumLengths(pieces, i) ==
    IF i > Len(pieces) THEN 0 ELSE pieces[i].length + SumLengths(pieces, i + 1)

\* len('\n'.join(combined_content)).
JoinedLength(pieces) ==
    IF pieces = <<>> THEN 0 ELSE SumLengths(pieces, 1) + (Len(pieces) - 1)

CombineIdle ==
    /\ ccPc = "idle"
    /\ ccPages = <<>>
    /\ ccOut = <<>>

-----------------------------------------------------------------------------
(* The scraper-then-analyzer pipeline on one document.  The scraper writes *)
(* the status 'scraping', then 'analyzing' with the scraped content, then  *)
(* 'analyzing' with the placeholder summary and the empty blocks, and     *)
(* 'failed' from its handler.  The update event of each write invokes the  *)
(* analyzer, whose event filter lets the run start or skips it; a run      *)
(* works on the document concurrently with the scraper.  The events of the *)
(* analyzer's own writes are left out: their status is not 'analyzing' and *)
(* the filter skips them.                                                  *)

\* The updates of the scraper, with the status each writes.
ScraperWrites == {"scraping", "content", "placeholder", "failed"}

WrittenStatus(w) == IF w \in {"content", "placeholder"} THEN "analyzing" ELSE w

PendingDocuments ==
    [status : {"pending"}, scraped : {FALSE}, blocks : {"none"}, imported : BOOLEAN]

Written(log, writer, status) == Append(log, [by |-> writer, status |-> status])

\* The update event of a write of the given status, as the analyzer's request.
UpdateEvent(status) ==
    [trigger |-> "event", form |-> "dict", idKey |-> "$id", status |-> status,
     other |-> TRUE]

\* The runs after the update event of write w invoked the analyzer.
RunsAfter(runs, w) == [runs EXCEPT ![w] = "event"]

PipelineIdle ==
    /\ plPc = "idle"
    /\ plDoc = [status |-> "pending", scraped |-> FALSE, blocks |-> "none",
                imported |-> FALSE]
    /\ plRuns = [w \in ScraperWrites |-> "none"]
    /\ plLog = <<>>
    /\ plScraped = "none"

-----------------------------------------------------------------------------
(* The response check *)

\* A well-formed response of up to MaxBlocks blocks in any shape, or one whose
\* blocks differ in size.
InitResponse ==
    /\ \/ \E shape \in Shapes, n \in 0..MaxBlocks :
            /\ text = MkText(shape, WellFormed(n))
            /\ altered = 0
       \/ \E n \in 1..MaxBlocks : \E sizes \in [1..n -> ValidSizes] :
            /\ text = MkText("json", [WellFormed(n) EXCEPT !.blocks =
                        [i \in 1..n |-> [GoodBlock(i) EXCEPT !.size = sizes[i]]]])
            /\ altered = MaxAlterations
    /\ rpc = "building"
    /\ parsed = NoParse
    /\ gemini = NoGemini
    /\ OrchIdle
    /\ TriggerIdle
    /\ AnalyzerIdle
    /\ CrawlIdle
    /\ FetchIdle
    /\ ContentIdle
    /\ SignupIdle
    /\ CombineIdle
    /\ PipelineIdle

BlockAlterations(b, first) ==
    {[b EXCEPT !.absent = {f}] : f \in RequiredFields}
    \cup {[b EXCEPT !.id = first.id], [b EXCEPT !.type = "research"],
          [b EXCEPT !.size = "huge"], [b EXCEPT !.meta = "nondict"],
          [b EXCEPT !.meta = "dict"], [b EXCEPT !.isdict = FALSE],
          [b EXCEPT !.content = ""]}

\* The model writes one block differently.
AlterBlock ==
    /\ rpc = "building" /\ altered < MaxAlterations /\ text.shape \in JsonShapes
    /\ text.data.top = "object"
    /\ \E p \in 1..Len(text.data.blocks) :
         \E nb \in BlockAlterations(text.data.blocks[p], text.data.blocks[1]) :
            /\ nb # text.data.blocks[p]
            /\ text' = [text EXCEPT !.data.blocks[p] = nb]
    /\ altered' = altered + 1
    /\ UNCHANGED <<rpc, parsed, gemini>>
    /\ UNCHANGED besidesResponse

\* The model writes the top level differently.
AlterTop ==
    /\ rpc = "building" /\ altered < MaxAlterations /\ text.shape \in JsonShapes
    /\ text.data.top = "object"
    /\ \/ \E s \in {"absent", "empty", "number"} :
            text' = [text EXCEPT !.data.summary = s]
       \/ \E k \in {"absent", "notlist"} :
            text' = [text EXCEPT !.data.blocksKind = k, !.data.blocks = <<>>]
       \/ text' = [text EXCEPT !.data = [WellFormed(0) EXCEPT !.top = "array"]]
    /\ altered' = altered + 1
    /\ UNCHANGED <<rpc, parsed, gemini>>
    /\ UNCHANGED besidesResponse

\* _perform_enhanced_analysis hands the text to _parse_llm_response.
OrchParse ==
    /\ rpc = "building"
    /\ parsed' = ParseLlmResponse(text)
    /\ rpc' = "parsed"
    /\ UNCHANGED <<text, altered, gemini>>
    /\ UNCHANGED besidesResponse

\* call_gemini_api extracts, validates and cleans the response.
GeminiValidate ==
    /\ rpc = "building"
    /\ gemini' = CallGeminiValidate(text)
    /\ rpc' = "validated"
    /\ UNCHANGED <<text, altered, parsed>>
    /\ UNCHANGED besidesResponse

\* main, steps 7 and 8: the response check and optimize_block_sizes.
MainOptimize ==
    /\ rpc = "validated" /\ gemini.outcome = "ok"
    /\ gemini.data.summary # "empty" /\ gemini.data.blocksKind = "list"
    /\ gemini' = [gemini EXCEPT !.data.blocks = OptimizeBlockSizes(@)]
    /\ rpc' = "optimized"
    /\ UNCHANGED <<text, altered, parsed>>
    /\ UNCHANGED besidesResponse

NextResponse ==
    \/ AlterBlock
    \/ AlterTop
    \/ OrchParse
    \/ GeminiValidate
    \/ MainOptimize

SpecResponse == InitResponse /\ [][NextResponse]_vars

-----------------------------------------------------------------------------
(* The orchestrator run as a state machine *)

InitOrch ==
    /\ text = MkText("empty", WellFormed(0))
    /\ altered = 0
    /\ rpc = "orchestrator"
    /\ parsed = NoParse
    /\ gemini = NoGemini
    /\ pc = "main"
    /\ req \in Requests
    /\ apiKey \in BOOLEAN
    /\ docData = "unbound"
    /\ scraped = "none"
    /\ enhanced = NoStep
    /\ research = <<>>
    /\ synthesis = NoStep
    /\ toolLog = 0
    /\ analysisBlocks = <<>>
    /\ result = NoResult
    /\ doc = NewDocument
    /\ writes = <<>>
    /\ raised = {}
    /\ http = NoHttp
    /\ TriggerIdle
    /\ AnalyzerIdle
    /\ CrawlIdle
    /\ FetchIdle
    /\ ContentIdle
    /\ SignupIdle
    /\ CombineIdle
    /\ PipelineIdle

\* main: without the API key the run is answered with 500 at once.
MainStart ==
    /\ pc = "main"
    /\ IF apiKey
       THEN /\ pc' = "extract"
            /\ UNCHANGED http
       ELSE /\ pc' = "responded"
            /\ http' = [code |-> 500, success |-> FALSE]
    /\ UNCHANGED <<req, apiKey, docData, scraped, enhanced, research, synthesis,
                   toolLog, analysisBlocks, result, doc, writes, raised>>
    /\ UNCHANGED respVars
    /\ UNCHANGED besidesOrch

\* Step 1: _extract_document_data; its ValueError goes to the outer handler
\* before document_data is bound.
ExtractDocumentData ==
    /\ pc = "extract"
    /\ IF ExtractError(req) = ""
       THEN /\ docData' = "bound"
            /\ pc' = "scrape"
            /\ UNCHANGED raised
       ELSE /\ raised' = raised \cup {"extract"}
            /\ pc' = "failed"
            /\ UNCHANGED docData
    /\ UNCHANGED <<req, apiKey, scraped, enhanced, research, synthesis,
                   toolLog, analysisBlocks, result, doc, writes, http>>
    /\ UNCHANGED respVars
    /\ UNCHANGED besidesOrch

\* Step 2: _scrape_website_content; an exception of the scraper is replaced
\* by the fallback record.
ScrapeWebsiteContent ==
    /\ pc = "scrape"
    /\ \/ /\ scraped' \in {"content", "empty"}
          /\ UNCHANGED raised
       \/ /\ scraped' = "error_text"
          /\ raised' = raised \cup {"scrape"}
    /\ pc' = "save"
    /\ UNCHANGED <<req, apiKey, docData, enhanced, research, synthesis,
                   toolLog, analysisBlocks, result, doc, writes, http>>
    /\ UNCHANGED respVars
    /\ UNCHANGED besidesOrch

\* Step 3: _save_scraped_content_immediately writes status 'analyzing'; a
\* failure of the write is logged and the run goes on.
SaveScrapedContentImmediately ==
    /\ pc = "save"
    /\ \/ /\ doc' = [doc EXCEPT !.status = "analyzing"]
          /\ writes' = Append(writes, [status |-> "analyzing", ok |-> TRUE])
          /\ UNCHANGED raised
       \/ /\ writes' = Append(writes, [status |-> "analyzing", ok |-> FALSE])
          /\ raised' = raised \cup {"save"}
          /\ UNCHANGED doc
    /\ pc' = "enhance"
    /\ UNCHANGED <<req, apiKey, docData, scraped, enhanced, research, synthesis,
                   toolLog, analysisBlocks, result, http>>
    /\ UNCHANGED respVars
    /\ UNCHANGED besidesOrch

\* Step 4, round 2: _perform_enhanced_analysis.  Without content no call is
\* made; an exception of the call is returned as {"error": ...}; a response
\* text goes through _parse_llm_response.
PerformEnhancedAnalysis ==
    /\ pc = "enhance"
    /\ \/ /\ scraped = "empty"
          /\ enhanced' = [kind |-> "error",
                          error |-> "No content available for enhanced analysis"]
          /\ UNCHANGED <<text, parsed, raised>>
       \/ /\ scraped # "empty"
          /\ \E e \in LlmErrors :
                enhanced' = [kind |-> "error", error |-> e]
          /\ raised' = raised \cup {"enhance"}
          /\ UNCHANGED <<text, parsed>>
       \/ /\ scraped # "empty"
          /\ \E shape \in Shapes, n \in 0..MaxBlocks :
                /\ text' = MkText(shape, WellFormed(n))
                /\ parsed' = ParseLlmResponse(MkText(shape, WellFormed(n)))
          /\ enhanced' = [kind |-> "parsed", error |-> ""]
          /\ UNCHANGED raised
    /\ pc' = "research"
    /\ UNCHANGED <<req, apiKey, docData, scraped, research, synthesis,
                   toolLog, analysisBlocks, result, doc, writes, http>>
    /\ UNCHANGED <<altered, rpc, gemini>>
    /\ UNCHANGED besidesOrch

\* Step 4, round 3: _perform_research_enrichment_with_content runs up to
\* three queries; each ends with insights, with an empty answer or failed.
PerformResearchEnrichment ==
    /\ pc = "research"
    /\ IF scraped = "empty"
       THEN UNCHANGED <<research, toolLog>>
       ELSE \E nq \in (IF scraped = "error_text" THEN {MaxResearchQueries}
                       ELSE 0..MaxResearchQueries) :
              \E rs \in [1..nq -> ResearchOutcomes] :
                 /\ research' = rs
                 /\ toolLog' = toolLog + nq
    /\ pc' = "synthesis"
    /\ UNCHANGED <<req, apiKey, docData, scraped, enhanced, synthesis,
                   analysisBlocks, result, doc, writes, raised, http>>
    /\ UNCHANGED respVars
    /\ UNCHANGED besidesOrch

\* Step 4, round 4: _perform_final_synthesis_with_content; an exception of
\* the call is returned as {"error": ...}.
PerformFinalSynthesis ==
    /\ pc = "synthesis"
    /\ \/ /\ synthesis' = [kind |-> "text", error |-> ""]
          /\ UNCHANGED raised
       \/ /\ \E e \in LlmErrors :
                synthesis' = [kind |-> "error", error |-> e]
          /\ raised' = raised \cup {"synthesis"}
    /\ pc' = "blocks"
    /\ UNCHANGED <<req, apiKey, docData, scraped, enhanced, research,
                   toolLog, analysisBlocks, result, doc, writes, http>>
    /\ UNCHANGED respVars
    /\ UNCHANGED besidesOrch

\* Step 5: _generate_comprehensive_blocks
GenerateBlocks ==
    /\ pc = "blocks"
    /\ analysisBlocks' = GenerateComprehensiveBlocks(enhanced, parsed.data, research)
    /\ pc' = "final"
    /\ UNCHANGED <<req, apiKey, docData, scraped, enhanced, research, synthesis,
                   toolLog, result, doc, writes, raised, http>>
    /\ UNCHANGED respVars
    /\ UNCHANGED besidesOrch

\* Step 6: _create_final_comprehensive_result
CreateFinalComprehensiveResult ==
    /\ pc = "final"
    /\ result' = [success |-> TRUE, error |-> "", keys |-> FinalResultKeys,
                  blocks |-> analysisBlocks]
    /\ pc' = "persist"
    /\ UNCHANGED <<req, apiKey, docData, scraped, enhanced, research, synthesis,
                   toolLog, analysisBlocks, doc, writes, raised, http>>
    /\ UNCHANGED respVars
    /\ UNCHANGED besidesOrch

\* Step 7: _update_document_with_analysis_only writes status 'completed' with
\* the sanitised blocks; a failure of the write is logged and the run
\* returns the final result all the same.
UpdateDocumentWithAnalysisOnly ==
    /\ pc = "persist"
    /\ \/ /\ doc' = [status |-> "completed", blocks |-> SanitizeBlocks(result.blocks, 1)]
          /\ writes' = Append(writes, [status |-> "completed", ok |-> TRUE])
          /\ UNCHANGED raised
       \/ /\ writes' = Append(writes, [status |-> "completed", ok |-> FALSE])
          /\ raised' = raised \cup {"persist"}
          /\ UNCHANGED doc
    /\ pc' = "return"
    /\ UNCHANGED <<req, apiKey, docData, scraped, enhanced, research, synthesis,
                   toolLog, analysisBlocks, result, http>>
    /\ UNCHANGED respVars
    /\ UNCHANGED besidesOrch

\* The outer handler of process_document_comprehensive: the error result,
\* and the 'failed' status write when document_data is bound.
HandleFailure ==
    /\ pc = "failed"
    /\ result' = [success |-> FALSE,
                  error |-> "Failed to extract document data: " \o ExtractError(req),
                  keys |-> ErrorResultKeys, blocks |-> <<>>]
    /\ IF docData = "bound"
       THEN \/ /\ doc' = [doc EXCEPT !.status = "failed"]
               /\ writes' = Append(writes, [status |-> "failed", ok |-> TRUE])
            \/ /\ writes' = Append(writes, [status |-> "failed", ok |-> FALSE])
               /\ UNCHANGED doc
       ELSE UNCHANGED <<doc, writes>>
    /\ pc' = "return"
    /\ UNCHANGED <<req, apiKey, docData, scraped, enhanced, research, synthesis,
                   toolLog, analysisBlocks, raised, http>>
    /\ UNCHANGED respVars
    /\ UNCHANGED besidesOrch

\* main: the returned result gets its metadata and is answered with 200.
MainRespond ==
    /\ pc = "return"
    /\ result' = [result EXCEPT !.keys = @ \cup {"metadata"}]
    /\ http' = [code |-> 200, success |-> result.success]
    /\ pc' = "responded"
    /\ UNCHANGED <<req, apiKey, docData, scraped, enhanced, research, synthesis,
                   toolLog, analysisBlocks, doc, writes, raised>>
    /\ UNCHANGED respVars
    /\ UNCHANGED besidesOrch

NextOrch ==
    \/ MainStart
    \/ ExtractDocumentData
    \/ ScrapeWebsiteContent
    \/ SaveScrapedContentImmediately
    \/ PerformEnhancedAnalysis
    \/ PerformResearchEnrichment
    \/ PerformFinalSynthesis
    \/ GenerateBlocks
    \/ CreateFinalComprehensiveResult
    \/ UpdateDocumentWithAnalysisOnly
    \/ HandleFailure
    \/ MainRespond

SpecOrch == InitOrch /\ [][NextOrch]_vars


-----------------------------------------------------------------------------
(* The trigger payload as a state machine: each function is invoked with   *)
(* the payload in each of the two shapes.                                  *)

InitTrigger ==
    /\ payload \in Payloads
    /\ resolved = [f \in Functions |-> [t \in Triggers |-> NotResolved]]
    /\ text = MkText("empty", WellFormed(0))
    /\ altered = 0
    /\ rpc = "idle"
    /\ parsed = NoParse
    /\ gemini = NoGemini
    /\ OrchIdle
    /\ AnalyzerIdle
    /\ CrawlIdle
    /\ FetchIdle
    /\ ContentIdle
    /\ SignupIdle
    /\ CombineIdle
    /\ PipelineIdle

\* The orchestrator is invoked with the payload in the shape of the trigger.
OrchestratorInvoked(t) ==
    /\ resolved["orchestrator"][t] = NotResolved
    /\ resolved' = [resolved EXCEPT !["orchestrator"][t] = OrchResolve(t, BodyOf(t, payload))]
    /\ UNCHANGED payload
    /\ UNCHANGED besidesTrigger

\* The scraper is invoked with the payload in the shape of the trigger.
ScraperInvoked(t) ==
    /\ resolved["scraper"][t] = NotResolved
    /\ resolved' = [resolved EXCEPT !["scraper"][t] = ScraperResolve(t, BodyOf(t, payload))]
    /\ UNCHANGED payload
    /\ UNCHANGED besidesTrigger

NextTrigger ==
    \/ \E t \in Triggers : OrchestratorInvoked(t)
    \/ \E t \in Triggers : ScraperInvoked(t)

SpecTrigger == InitTrigger /\ [][NextTrigger]_vars

-----------------------------------------------------------------------------
(* The analyzer's main as a state machine *)

InitAnalyzer ==
    /\ anPc = "start"
    /\ anReq \in AnRequests
    /\ anDoc \in AnDocuments
    /\ anDocId = "none"
    /\ anRetry = 0
    /\ anCalls = 0
    /\ anSleeps = <<>>
    /\ anReads = 0
    /\ anWrites = <<>>
    /\ anErr = ""
    /\ anResp = AnNoResponse
    /\ text = MkText("empty", WellFormed(0))
    /\ altered = 0
    /\ rpc = "analyzer"
    /\ parsed = NoParse
    /\ gemini = NoGemini
    /\ OrchIdle
    /\ TriggerIdle
    /\ CrawlIdle
    /\ FetchIdle
    /\ ContentIdle
    /\ SignupIdle
    /\ CombineIdle
    /\ PipelineIdle

\* The event filter: events that are no update to status 'analyzing' are
\* answered with a skip.
AnFilterEvent ==
    /\ anPc = "start"
    /\ IF EventSkip(anReq) # ""
       THEN /\ anResp' = AnSkipped(EventSkip(anReq), "none")
            /\ anPc' = "done"
       ELSE /\ anPc' = "validate"
            /\ UNCHANGED anResp
    /\ UNCHANGED <<anReq, anDoc, anDocId, anRetry, anCalls, anSleeps, anReads, anWrites, anErr>>
    /\ UNCHANGED <<text, gemini>>
    /\ UNCHANGED besidesAnalyzer

\* Step 1: request validation and the extraction of the document id.
AnValidateRequest ==
    /\ anPc = "validate"
    /\ IF BodyFalsy(anReq)
       THEN /\ anResp' = AnBadRequest("Missing request body")
            /\ anPc' = "done"
            /\ UNCHANGED anDocId
       ELSE IF ResolveDocumentId(anReq) = "none"
       THEN /\ anResp' = AnBadRequest("Missing required field: documentId")
            /\ anPc' = "done"
            /\ UNCHANGED anDocId
       ELSE /\ anDocId' = ResolveDocumentId(anReq)
            /\ anPc' = "query"
            /\ UNCHANGED anResp
    /\ UNCHANGED <<anReq, anDoc, anRetry, anCalls, anSleeps, anReads, anWrites, anErr>>
    /\ UNCHANGED <<text, gemini>>
    /\ UNCHANGED besidesAnalyzer

\* Steps 2 to 5: get_document_and_analysis, the imported check, the content
\* validation, and the prompt.
AnQueryDocument ==
    /\ anPc = "query"
    /\ anReads' = anReads + 1
    /\ IF anDoc.db # "ok"
       THEN /\ anErr' = "Failed to retrieve document data: " \o DbErrorMessage(anDoc.db)
            /\ anPc' = "failed"
            /\ UNCHANGED anResp
       ELSE IF anDoc.content # "text"
       THEN /\ anErr' = "Failed to retrieve document data: Document has not been scraped yet"
            /\ anPc' = "failed"
            /\ UNCHANGED anResp
       ELSE IF anDoc.imported
       THEN /\ anResp' = AnSkipped("Skipped: Document is imported", anDocId)
            /\ anPc' = "done"
            /\ UNCHANGED anErr
       ELSE IF anDoc.content # "text"
       THEN /\ anErr' = "No scraped content available for analysis"
            /\ anPc' = "failed"
            /\ UNCHANGED anResp
       ELSE /\ anPc' = "llm"
            /\ UNCHANGED <<anErr, anResp>>
    /\ UNCHANGED <<anReq, anDoc, anDocId, anRetry, anCalls, anSleeps, anWrites>>
    /\ UNCHANGED <<text, gemini>>
    /\ UNCHANGED besidesAnalyzer

\* Step 6, one attempt of call_gemini_api: the request fails or its text is
\* validated; a retryable error is retried up to MaxRetries times, any other
\* is raised into main.
AnCallGemini ==
    /\ anPc = "llm"
    /\ anCalls' = anCalls + 1
    /\ \/ \E e \in LlmErrors :
            IF IsRetryable(e) /\ anRetry < MaxRetries
            THEN /\ anSleeps' = Append(anSleeps, [error |-> e, delay |-> Delay(anRetry)])
                 /\ anRetry' = anRetry + 1
                 /\ UNCHANGED <<anPc, anErr, text, gemini>>
            ELSE /\ anErr' = RaisedPrefix \o e
                 /\ anPc' = "failed"
                 /\ UNCHANGED <<anRetry, anSleeps, text, gemini>>
       \/ \E t \in {MkText(shape, WellFormed(n)) : shape \in Shapes, n \in 0..MaxBlocks}
                    \cup {MkText("trailing_comma", PaddedResponse)} :
            LET g == CallGeminiValidate(t)
            IN  /\ text' = t
                /\ IF g.outcome = "ok"
                   THEN /\ gemini' = g
                        /\ anPc' = "optimize"
                        /\ UNCHANGED <<anRetry, anSleeps, anErr>>
                   ELSE IF IsRetryable(g.error) /\ anRetry < MaxRetries
                   THEN /\ anSleeps' = Append(anSleeps, [error |-> g.error, delay |-> Delay(anRetry)])
                        /\ anRetry' = anRetry + 1
                        /\ UNCHANGED <<anPc, anErr, gemini>>
                   ELSE /\ anErr' = RaisedPrefix \o g.error
                        /\ anPc' = "failed"
                        /\ UNCHANGED <<anRetry, anSleeps, gemini>>
    /\ UNCHANGED <<anReq, anDoc, anDocId, anReads, anWrites, anResp>>
    /\ UNCHANGED besidesAnalyzer

\* Steps 7 and 8: the response check and optimize_block_sizes.
AnOptimize ==
    /\ anPc = "optimize"
    /\ IF gemini.data.summary \in {"absent", "empty"}
       THEN /\ anErr' = "Invalid LLM response: missing summary"
            /\ anPc' = "failed"
            /\ UNCHANGED gemini
       ELSE IF gemini.data.blocksKind # "list"
       THEN /\ anErr' = "Invalid LLM response: blocks must be an array"
            /\ anPc' = "failed"
            /\ UNCHANGED gemini
       ELSE /\ gemini' = [gemini EXCEPT !.data.blocks = OptimizeBlockSizes(@)]
            /\ anPc' = "save"
            /\ UNCHANGED anErr
    /\ UNCHANGED <<anReq, anDoc, anDocId, anRetry, anCalls, anSleeps, anReads, anWrites, anResp>>
    /\ UNCHANGED text
    /\ UNCHANGED besidesAnalyzer

\* Steps 9 and 10: save_analysis_result writes status 'completed' with the
\* summary and the blocks; its failure is raised.
AnSave ==
    /\ anPc = "save"
    /\ \/ /\ anDoc' = [anDoc EXCEPT !.status = "completed"]
          /\ anWrites' = Append(anWrites, [status |-> "completed", ok |-> TRUE])
          /\ anResp' = [AnNoResponse EXCEPT !.success = TRUE, !.kind = "ok",
                            !.message = "Document analysis completed successfully",
                            !.statusCode = 200, !.documentId = anDocId]
          /\ anPc' = "done"
          /\ UNCHANGED anErr
       \/ /\ anWrites' = Append(anWrites, [status |-> "completed", ok |-> FALSE])
          /\ anErr' = "Database save failed: Server Error"
          /\ anPc' = "failed"
          /\ UNCHANGED <<anDoc, anResp>>
    /\ UNCHANGED <<anReq, anDocId, anRetry, anCalls, anSleeps, anReads>>
    /\ UNCHANGED <<text, gemini>>
    /\ UNCHANGED besidesAnalyzer

\* The handler of main: it resolves the document id from the key documentId,
\* categorises the error, attempts the 'failed' status write when it has an
\* id, and answers with the error response.
AnHandleError ==
    /\ anPc = "failed"
    /\ LET id  == HandlerDocumentId(anReq)
           cat == Categorize(anErr)
       IN  /\ anDocId' = id
           /\ IF id # "none"
              THEN \/ /\ anDoc.db = "ok"
                      /\ anDoc' = [anDoc EXCEPT !.status = "failed"]
                      /\ anWrites' = Append(anWrites, [status |-> "failed", ok |-> TRUE])
                   \/ /\ anWrites' = Append(anWrites, [status |-> "failed", ok |-> FALSE])
                      /\ UNCHANGED anDoc
              ELSE UNCHANGED <<anDoc, anWrites>>
           /\ anResp' = [success |-> FALSE, kind |-> "failed",
                         error |-> anErr, message |-> cat.message,
                         retryable |-> cat.retryable, action |-> cat.action,
                         statusCode |-> 500, documentId |-> id]
    /\ anPc' = "done"
    /\ UNCHANGED <<anReq, anRetry, anCalls, anSleeps, anReads, anErr>>
    /\ UNCHANGED <<text, gemini>>
    /\ UNCHANGED besidesAnalyzer

NextAnalyzer ==
    \/ AnFilterEvent
    \/ AnValidateRequest
    \/ AnQueryDocument
    \/ AnCallGemini
    \/ AnOptimize
    \/ AnSave
    \/ AnHandleError

SpecAnalyzer == InitAnalyzer /\ [][NextAnalyzer]_vars

-----------------------------------------------------------------------------
(* The crawl as a state machine *)

InitCrawl ==
    /\ crPc = "loop"
    /\ crMax \in 1..MaxPages
    /\ crPending = <<Seed>>
    /\ crVisited = {}
    /\ crPages = <<>>
    /\ crCrawled = 0
    /\ crClock = 0
    /\ crFetched = <<>>
    /\ crLinks = <<>>
    /\ crEnqueued = {}
    /\ crResult = NoCrawlResult
    /\ text = MkText("empty", WellFormed(0))
    /\ altered = 0
    /\ rpc = "crawl"
    /\ parsed = NoParse
    /\ gemini = NoGemini
    /\ OrchIdle
    /\ TriggerIdle
    /\ AnalyzerIdle
    /\ FetchIdle
    /\ ContentIdle
    /\ SignupIdle
    /\ CombineIdle
    /\ PipelineIdle

\* One iteration of the while loop: the head of the queue is popped and, if
\* it was not visited, fetched; a stored HTML page has its links followed
\* while the page budget is not reached, and a stored page is followed by
\* the delay.
CrawlPage ==
    /\ crPc = "loop"
    /\ LoopContinues(crPending, crCrawled, crMax, crClock)
    /\ LET current == Head(crPending)
           rest    == Pop(crPending)
       IN  IF current \in crVisited
           THEN /\ crPending' = rest
                /\ UNCHANGED <<crVisited, crPages, crCrawled, crClock, crFetched,
                               crLinks, crEnqueued>>
           ELSE \E o \in FetchOutcomes, d \in FetchDurations, links \in LinkLists :
                  LET visited == crVisited \cup {current}
                      crawled == crCrawled + 1
                      found   == crClock + d
                      follow  == FollowsLinks(crawled, crMax, o)
                      queue   == IF follow
                                 THEN FindLinks(links, 1, visited, rest, crMax)
                                 ELSE rest
                  IN  /\ crVisited' = visited
                      /\ crCrawled' = crawled
                      /\ crFetched' = Append(crFetched, [url |-> current, at |-> crClock])
                      /\ crLinks' = IF Stored(o) THEN links ELSE <<>>
                      /\ crPages' = IF Stored(o) THEN Append(crPages, current)
                                    ELSE crPages
                      /\ crPending' = queue
                      /\ crEnqueued' = crEnqueued \cup
                            {[url |-> queue[i], at |-> found] :
                                i \in (Len(rest) + 1)..Len(queue)}
                      /\ crClock' = IF Stored(o) THEN found + SleepDelay ELSE found
    /\ UNCHANGED <<crPc, crMax, crResult>>
    /\ UNCHANGED besidesCrawl

\* The loop ends: the queue is empty, the page budget is used or the time
\* budget has run out.
CrawlLoopEnds ==
    /\ crPc = "loop"
    /\ ~LoopContinues(crPending, crCrawled, crMax, crClock)
    /\ crPc' = "finish"
    /\ UNCHANGED <<crMax, crPending, crVisited, crPages, crCrawled, crClock,
                   crFetched, crLinks, crEnqueued, crResult>>
    /\ UNCHANGED besidesCrawl

\* After the loop: without a stored page the seed is scraped once more by
\* scrape_single_page_fallback; when that raises, the handler of the function
\* calls it a second time, and what it raises then leaves the function.
\* Otherwise the first max_pages stored pages make the result.
CrawlFinish ==
    /\ crPc = "finish"
    /\ IF crPages = <<>>
       THEN \E first \in BOOLEAN, second \in BOOLEAN :
                crResult' = [kind |-> IF first \/ second THEN "single_page"
                                      ELSE "raised",
                             pages_crawled |-> 0, pages |-> <<>>,
                             fallbacks |-> IF first THEN 1 ELSE 2]
       ELSE crResult' = [kind |-> "crawl",
                         pages_crawled |-> Len(Take(crPages, crMax)),
                         pages |-> Take(crPages, crMax),
                         fallbacks |-> 0]
    /\ crPc' = "done"
    /\ UNCHANGED <<crMax, crPending, crVisited, crPages, crCrawled, crClock,
                   crFetched, crLinks, crEnqueued>>
    /\ UNCHANGED besidesCrawl

NextCrawl ==
    \/ CrawlPage
    \/ CrawlLoopEnds
    \/ CrawlFinish

SpecCrawl == InitCrawl /\ [][NextCrawl]_vars

\* The function runs on: each statement is followed by the next one.
SpecCrawlRuns == InitCrawl /\ [][NextCrawl]_vars /\ WF_vars(NextCrawl)

-----------------------------------------------------------------------------
(* smart_fetch_html as a state machine *)

InitFetch ==
    /\ sfPc = Strategies[1]
    /\ sfKey \in BOOLEAN
    /\ sfHtml = None
    /\ sfMethod = "basic"
    /\ sfTried = FALSE
    /\ sfLog = <<>>
    /\ sfRaised = FALSE
    /\ text = MkText("empty", WellFormed(0))
    /\ altered = 0
    /\ rpc = "fetch"
    /\ parsed = NoParse
    /\ gemini = NoGemini
    /\ OrchIdle
    /\ TriggerIdle
    /\ AnalyzerIdle
    /\ CrawlIdle
    /\ ContentIdle
    /\ SignupIdle
    /\ CombineIdle
    /\ PipelineIdle

\* The request of one header profile.
FetchStrategy ==
    /\ sfPc \in StrategyNames
    /\ \E o \in RequestOutcomes :
        LET r == StrategyAttempt(sfHtml, sfMethod, sfPc, o)
        IN  /\ sfHtml' = r.html
            /\ sfMethod' = r.method
            /\ sfLog' = Append(sfLog, [by |-> sfPc, outcome |-> o])
            /\ sfRaised' = r.raised
            /\ sfPc' = IF r.raised THEN "done"
                       ELSE IF r.stop THEN "render"
                       ELSE NextStrategy(sfPc)
    /\ UNCHANGED <<sfKey, sfTried>>
    /\ UNCHANGED besidesFetch

\* After the profiles: rendering is tried when there is no body or a small one.
FetchDecide ==
    /\ sfPc = "render"
    /\ IF NeedsRendering(sfHtml)
       THEN /\ sfTried' = TRUE
            /\ sfPc' = IF sfKey THEN "browserless" ELSE "free"
       ELSE /\ sfPc' = "done"
            /\ UNCHANGED sfTried
    /\ UNCHANGED <<sfKey, sfHtml, sfMethod, sfLog, sfRaised>>
    /\ UNCHANGED besidesFetch

\* The request to Browserless.io, made when the API key is set.
FetchBrowserless ==
    /\ sfPc = "browserless"
    /\ \E o \in RequestOutcomes :
        LET r == RenderAttempt(sfHtml, sfMethod, "browserless-io", o)
        IN  /\ sfHtml' = r.html
            /\ sfMethod' = r.method
            /\ sfLog' = Append(sfLog, [by |-> "browserless-io", outcome |-> o])
    /\ sfPc' = "free"
    /\ UNCHANGED <<sfKey, sfTried, sfRaised>>
    /\ UNCHANGED besidesFetch

\* The free service, asked when the body is still missing or small.
FetchRendertron ==
    /\ sfPc = "free"
    /\ IF NeedsRendering(sfHtml)
       THEN \E o \in RequestOutcomes :
              LET r == RenderAttempt(sfHtml, sfMethod, "rendertron-free", o)
              IN  /\ sfHtml' = r.html
                  /\ sfMethod' = r.method
                  /\ sfLog' = Append(sfLog, [by |-> "rendertron-free", outcome |-> o])
       ELSE UNCHANGED <<sfHtml, sfMethod, sfLog>>
    /\ sfPc' = "done"
    /\ UNCHANGED <<sfKey, sfTried, sfRaised>>
    /\ UNCHANGED besidesFetch

NextFetch ==
    \/ FetchStrategy
    \/ FetchDecide
    \/ FetchBrowserless
    \/ FetchRendertron

SpecFetch == InitFetch /\ [][NextFetch]_vars

-----------------------------------------------------------------------------
(* optimize_content_for_analysis applied to a content *)

InitContent ==
    /\ ocPc = "start"
    /\ ocIn \in Contents
    /\ ocOut = <<>>
    /\ ResponseIdle
    /\ OrchIdle
    /\ TriggerIdle
    /\ AnalyzerIdle
    /\ CrawlIdle
    /\ FetchIdle
    /\ SignupIdle
    /\ CombineIdle
    /\ PipelineIdle

OptimizeContent ==
    /\ ocPc = "start"
    /\ ocOut' = OptimizeContentForAnalysis(ocIn)
    /\ ocPc' = "done"
    /\ UNCHANGED ocIn
    /\ UNCHANGED besidesContent

NextContent == OptimizeContent

SpecContent == InitContent /\ [][NextContent]_vars

-----------------------------------------------------------------------------
(* Invocations of the signup-credits main for one user *)

InitSignup ==
    /\ suStore \in Preferences
    /\ suInitial = suStore
    /\ suRun = [i \in Invocations |-> NotStarted]
    /\ ResponseIdle
    /\ OrchIdle
    /\ TriggerIdle
    /\ AnalyzerIdle
    /\ CrawlIdle
    /\ FetchIdle
    /\ ContentIdle
    /\ CombineIdle
    /\ PipelineIdle

\* Step 3 of main: get_user_preferences.
SignupRead(i) ==
    /\ suRun[i].pc = "start"
    /\ \E ok \in BOOLEAN :
        suRun' = [suRun EXCEPT ![i].pc = "read",
                               ![i].seen = suStore,
                               ![i].prefs = GetUserPreferences(suStore, ok)]
    /\ UNCHANGED <<suStore, suInitial>>
    /\ UNCHANGED besidesSignup

\* Step 4 of main and its answer: update_user_credits computes the new
\* preferences and writes them; an exception of the computation or of the
\* write makes it return False, and main answers with the failure.
SignupUpdate(i) ==
    /\ suRun[i].pc = "read"
    /\ IF ~CreditsAddable(suRun[i].prefs)
       THEN /\ suRun' = [suRun EXCEPT ![i].pc = "done"]
            /\ UNCHANGED suStore
       ELSE \/ /\ suStore' = UpdatedPreferences(suRun[i].prefs)
               /\ suRun' = [suRun EXCEPT ![i].pc = "done", ![i].service = "ok",
                                         ![i].written = suStore',
                                         ![i].success = TRUE]
            \/ /\ suRun' = [suRun EXCEPT ![i].pc = "done", ![i].service = "error"]
               /\ UNCHANGED suStore
    /\ UNCHANGED suInitial
    /\ UNCHANGED besidesSignup

NextSignup ==
    \E i \in Invocations :
        \/ SignupRead(i)
        \/ SignupUpdate(i)

SpecSignup == InitSignup /\ [][NextSignup]_vars

-----------------------------------------------------------------------------
(* The assembly of the crawl result *)

InitCombine ==
    /\ ccPc = "start"
    /\ ccPages \in PageLists
    /\ ccOut = <<>>
    /\ ResponseIdle
    /\ OrchIdle
    /\ TriggerIdle
    /\ AnalyzerIdle
    /\ CrawlIdle
    /\ FetchIdle
    /\ ContentIdle
    /\ SignupIdle
    /\ PipelineIdle

CombineContent ==
    /\ ccPc = "start"
    /\ ccOut' = CombinedContent(ccPages)
    /\ ccPc' = "done"
    /\ UNCHANGED ccPages
    /\ UNCHANGED besidesCombine

NextCombine == CombineContent

SpecCombine == InitCombine /\ [][NextCombine]_vars

-----------------------------------------------------------------------------
(* The pipeline as a state machine *)

InitPipeline ==
    /\ plPc = "start"
    /\ plDoc \in PendingDocuments
    /\ plRuns = [w \in ScraperWrites |-> "none"]
    /\ plLog = <<>>
    /\ plScraped = "none"
    /\ ResponseIdle
    /\ OrchIdle
    /\ TriggerIdle
    /\ AnalyzerIdle
    /\ CrawlIdle
    /\ FetchIdle
    /\ ContentIdle
    /\ SignupIdle
    /\ CombineIdle

\* update_document_status(databases, document_id, 'scraping')
ScraperSetScraping ==
    /\ plPc = "start"
    /\ \/ /\ plDoc' = [plDoc EXCEPT !.status = "scraping"]
          /\ plLog' = Written(plLog, "scraper", "scraping")
          /\ plRuns' = RunsAfter(plRuns, "scraping")
          /\ plPc' = "scrape"
       \/ /\ plPc' = "handler"
          /\ UNCHANGED <<plDoc, plRuns, plLog>>
    /\ UNCHANGED plScraped
    /\ UNCHANGED besidesPipeline

\* scrape_website returns the scraped data, whose content is a text or, for
\* a page without text, empty; or it raises.
ScraperScrape ==
    /\ plPc = "scrape"
    /\ \/ /\ plScraped' \in {"text", "empty"}
          /\ plPc' = "store"
       \/ /\ plPc' = "handler"
          /\ UNCHANGED plScraped
    /\ UNCHANGED <<plDoc, plRuns, plLog>>
    /\ UNCHANGED besidesPipeline

\* update_document_status(databases, document_id, 'analyzing', scraped_data)
ScraperStoreContent ==
    /\ plPc = "store"
    /\ \/ /\ plDoc' = [plDoc EXCEPT !.status = "analyzing",
                                    !.scraped = (plScraped = "text")]
          /\ plRuns' = RunsAfter(plRuns, "content")
          /\ plLog' = Written(plLog, "scraper", "analyzing")
          /\ plPc' = "trigger"
       \/ /\ plPc' = "handler"
          /\ UNCHANGED <<plDoc, plRuns, plLog>>
    /\ UNCHANGED plScraped
    /\ UNCHANGED besidesPipeline

\* trigger_llm_analysis: the status, the placeholder summary and empty blocks.
ScraperTrigger ==
    /\ plPc = "trigger"
    /\ \/ /\ plDoc' = [plDoc EXCEPT !.status = "analyzing", !.blocks = "placeholder"]
          /\ plRuns' = RunsAfter(plRuns, "placeholder")
          /\ plLog' = Written(plLog, "scraper", "analyzing")
          /\ plPc' = "done"
       \/ /\ plPc' = "handler"
          /\ UNCHANGED <<plDoc, plRuns, plLog>>
    /\ UNCHANGED plScraped
    /\ UNCHANGED besidesPipeline

\* The handler of the scraper's main writes the status 'failed'; when that
\* write raises, the handler goes on without it.
ScraperHandleFailure ==
    /\ plPc = "handler"
    /\ \/ /\ plDoc' = [plDoc EXCEPT !.status = "failed"]
          /\ plLog' = Written(plLog, "scraper", "failed")
          /\ plRuns' = RunsAfter(plRuns, "failed")
       \/ UNCHANGED <<plDoc, plLog, plRuns>>
    /\ plPc' = "done"
    /\ UNCHANGED plScraped
    /\ UNCHANGED besidesPipeline

\* The event filter at the head of the analyzer's main.
AnalyzerFilterEvent(w) ==
    /\ plRuns[w] = "event"
    /\ plRuns' = [plRuns EXCEPT ![w] =
                    IF EventSkip(UpdateEvent(WrittenStatus(w))) = ""
                    THEN "start" ELSE "skipped"]
    /\ UNCHANGED <<plPc, plDoc, plLog, plScraped>>
    /\ UNCHANGED besidesPipeline

\* Step 2 and 3 of an analyzer run: the document is read and must carry
\* scraped content; the run ends there for an imported document.  The read
\* may raise.
AnalyzerQuery(w) ==
    /\ plRuns[w] = "start"
    /\ \/ plRuns' = [plRuns EXCEPT ![w] = IF ~plDoc.scraped THEN "failed"
                                          ELSE IF plDoc.imported THEN "done"
                                          ELSE "llm"]
       \/ plRuns' = [plRuns EXCEPT ![w] = "failed"]
    /\ UNCHANGED <<plPc, plDoc, plLog, plScraped>>
    /\ UNCHANGED besidesPipeline

\* Steps 4 to 8: call_gemini_api returns an analysis or raises.
AnalyzerCall(w) ==
    /\ plRuns[w] = "llm"
    /\ \E next \in {"save", "failed"} : plRuns' = [plRuns EXCEPT ![w] = next]
    /\ UNCHANGED <<plPc, plDoc, plLog, plScraped>>
    /\ UNCHANGED besidesPipeline

\* Step 9: save_analysis_result writes 'completed' with the summary and
\* blocks; when the write raises, the run goes to the handler.
AnalyzerSave(w) ==
    /\ plRuns[w] = "save"
    /\ \/ /\ plDoc' = [plDoc EXCEPT !.status = "completed", !.blocks = "analysis"]
          /\ plLog' = Written(plLog, w, "completed")
          /\ plRuns' = [plRuns EXCEPT ![w] = "done"]
       \/ /\ plRuns' = [plRuns EXCEPT ![w] = "failed"]
          /\ UNCHANGED <<plDoc, plLog>>
    /\ UNCHANGED <<plPc, plScraped>>
    /\ UNCHANGED besidesPipeline

\* The handler of the analyzer's main: 'failed' is written when the handler
\* finds the document id in the event.
AnalyzerHandleError(w) ==
    /\ plRuns[w] = "failed"
    /\ IF HandlerDocumentId(UpdateEvent("analyzing")) # "none"
       THEN /\ plDoc' = [plDoc EXCEPT !.status = "failed"]
            /\ plLog' = Written(plLog, w, "failed")
       ELSE UNCHANGED <<plDoc, plLog>>
    /\ plRuns' = [plRuns EXCEPT ![w] = "done"]
    /\ UNCHANGED <<plPc, plScraped>>
    /\ UNCHANGED besidesPipeline

NextPipeline ==
    \/ ScraperSetScraping
    \/ ScraperScrape
    \/ ScraperStoreContent
    \/ ScraperTrigger
    \/ ScraperHandleFailure
    \/ \E w \in ScraperWrites : AnalyzerFilterEvent(w)
    \/ \E w \in ScraperWrites : AnalyzerQuery(w)
    \/ \E w \in ScraperWrites : AnalyzerCall(w)
    \/ \E w \in ScraperWrites : AnalyzerSave(w)
    \/ \E w \in ScraperWrites : AnalyzerHandleError(w)

SpecPipeline == InitPipeline /\ [][NextPipeline]_vars

-----------------------------------------------------------------------------
(* Properties of the response validators *)

DistinctIds(blocks) ==
    \A i, j \in 1..Len(blocks) : i # j => blocks[i].id # blocks[j].id

HasDuplicateIds(blocks) ==
    \E i, j \in 1..Len(blocks) :
        /\ i < j
        /\ blocks[i].isdict /\ "id" \notin blocks[i].absent
        /\ blocks[j].isdict /\ "id" \notin blocks[j].absent
        /\ blocks[i].id = blocks[j].id

\* The text is a JSON object (plain, fenced or with a trailing comma) with a
\* summary and a block list in which two blocks share an id.
DuplicateIdText(t) ==
    /\ t.shape \in JsonShapes
    /\ t.data.top = "object"
    /\ t.data.summary # "absent"
    /\ t.data.blocksKind = "list"
    /\ HasDuplicateIds(t.data.blocks)

\* C1: every block list accepted by a response validator (a success=true
\* result of _parse_llm_response, a response returned by call_gemini_api) has
\* at most 6 blocks and pairwise-distinct block ids.
C1_AcceptedBlocksBoundedDistinct ==
    /\ (rpc = "parsed" /\ parsed.success) =>
          /\ Len(parsed.data.blocks) <= 6
          /\ DistinctIds(parsed.data.blocks)
    /\ (rpc = "validated" /\ gemini.outcome = "ok") =>
          /\ Len(gemini.data.blocks) <= 6
          /\ DistinctIds(gemini.data.blocks)

\* C2: a text that parses to an object with summary and blocks in which two
\* blocks share an id is never returned by the direct-parse, extraction or
\* repair tier; the result is the fallback synthesis, a summary block plus a
\* key_points block.
C2_DuplicateIdFallsBack ==
    (rpc = "parsed" /\ DuplicateIdText(text)) =>
        /\ ~parsed.success
        /\ parsed.format = "fallback"
        /\ parsed.data.blocks = FallbackBlocks
        /\ parsed.data.blocks[1].type = "summary"
        /\ parsed.data.blocks[2].type = "key_points"

C2_Witness ==
    /\ rpc = "parsed" /\ DuplicateIdText(text)
    /\ text.shape = "fenced"
    /\ Len(text.data.blocks) = OrchMaxBlocks
    /\ parsed.format = "fallback"

\* C3: for every model text, empty and whitespace-only ones included, the
\* parsed_data of _parse_llm_response carries a non-empty summary and a
\* non-empty block list.
C3_ParsedDataNonEmpty ==
    rpc = "parsed" =>
        /\ parsed.data.summary \notin {"absent", "empty"}
        /\ parsed.data.blocksKind = "list"
        /\ Len(parsed.data.blocks) > 0

\* C4: schema validation accepts an object only if its summary is a non-empty
\* string, its block list is non-empty with at most 6 entries, and every block
\* has the five required fields, a type of the enum and a size of
\* small/medium/large.
C4_AcceptOnlyWellFormed ==
    (rpc = "parsed" /\ parsed.success) =>
        /\ parsed.data.summary = "text"
        /\ Len(parsed.data.blocks) \in 1..6
        /\ \A i \in 1..Len(parsed.data.blocks) :
              /\ parsed.data.blocks[i].isdict
              /\ parsed.data.blocks[i].absent = {}
              /\ parsed.data.blocks[i].type \in ValidTypes
              /\ parsed.data.blocks[i].size \in ValidSizes

\* C5: the block list that leaves optimize_block_sizes costs at most the
\* analyzer's grid capacity of 8 units (small 1, medium 2, large 3).
C5_GridCostWithinCapacity ==
    rpc = "optimized" => TotalUnits(gemini.data.blocks, 1) <= 8

\* The repair tiers in their order, with the format each reports.
Tiers == <<"json", "extracted_json", "fixed_json">>

NoObject == [top |-> "none"]

\* The schema-valid object a tier yields for a text, NoObject if it yields none.
TierOutput(tier, t) ==
    CASE tier = "json" ->
            IF LooksLikeObject(t) /\ IsValue(DirectLoads(t))
               /\ ValidateLlmSchema(DirectLoads(t))
            THEN DirectLoads(t) ELSE NoObject
      [] tier = "extracted_json" ->
            IF FirstValid(ExtractCandidates(t), 1) # 0
            THEN ExtractCandidates(t)[FirstValid(ExtractCandidates(t), 1)]
            ELSE NoObject
      [] OTHER ->
            IF IsValue(FixedLoads(t)) /\ ValidateLlmSchema(FixedLoads(t))
            THEN FixedLoads(t) ELSE NoObject

\* The first tier that yields a schema-valid object, 0 if none does.
FirstTier(t) ==
    IF \E i \in 1..Len(Tiers) : TierOutput(Tiers[i], t) # NoObject
    THEN CHOOSE i \in 1..Len(Tiers) :
            /\ TierOutput(Tiers[i], t) # NoObject
            /\ \A j \in 1..(i - 1) : TierOutput(Tiers[j], t) = NoObject
    ELSE 0

\* C23: the tiers direct parse, extraction, repair, fallback are applied in
\* that order with first-success semantics: the result is the output of the
\* first tier that yields a schema-valid object, the fallback is reached
\* only when no tier does, and success is reported only for an object that
\* passed the schema validation.
C23_FirstValidTierWins ==
    (rpc = "parsed" /\ ~IsBlank(text)) =>
        /\ IF FirstTier(text) = 0
           THEN /\ ~parsed.success
                /\ parsed.format = "fallback"
                /\ parsed.data = GenerateFallbackAnalysis(text)
           ELSE /\ parsed.success
                /\ parsed.format = Tiers[FirstTier(text)]
                /\ parsed.data = TierOutput(Tiers[FirstTier(text)], text)
        /\ parsed.success => ValidateLlmSchema(parsed.data)

\* The extraction yielded the result of a text the repair would have served too.
C23_Witness ==
    /\ rpc = "parsed" /\ parsed.success
    /\ parsed.format = "extracted_json"
    /\ TierOutput("fixed_json", text) # NoObject

\* C24: one invocation of call_gemini_api sends at most 1 + MaxRetries = 4
\* requests, the sleep before retry k lasts BaseDelay * 2^(k-1) seconds
\* (1, 2, 4), and once the last allowed attempt has failed the error is
\* raised to the caller: no further attempt is pending.
C24_BoundedBackoff ==
    /\ anCalls <= MaxRetries + 1
    /\ Len(anSleeps) = anRetry /\ anRetry <= MaxRetries
    /\ \A k \in 1..Len(anSleeps) : anSleeps[k].delay = BaseDelay * (2 ^ (k - 1))
    /\ anPc = "llm" => anCalls = anRetry
    /\ (anCalls = MaxRetries + 1 /\ gemini.outcome # "ok") =>
            /\ anPc \in {"failed", "done"}
            /\ SubSeq(anErr, 1, Len(RaisedPrefix)) = RaisedPrefix

\* The fourth attempt failed after the sleeps of 1, 2 and 4 seconds.
C24_Witness ==
    /\ anCalls = MaxRetries + 1
    /\ Len(anSleeps) = MaxRetries
    /\ anPc = "failed"
    /\ IsRetryable(anErr)

\* The error texts the retry is stated for.
StatedKeywords == {"503", "unavailable", "overloaded"}

StatedRetryable(msg) == \E k \in StatedKeywords : Contains(Lower(msg), k)

\* C25: a failed call is retried exactly when its error text carries "503",
\* "unavailable" or "overloaded": every error slept on carries one of them,
\* and an error raised with retries left carries none.
C25_RetriedIffTransient ==
    /\ \A k \in 1..Len(anSleeps) : StatedRetryable(anSleeps[k].error)
    /\ (anPc = "failed" /\ anCalls > 0 /\ anRetry < MaxRetries) =>
            ~StatedRetryable(anErr)

\* C26: every crawl terminates: whatever the pages link to and whichever
\* fetches and extractions fail, the loop is left after finitely many
\* iterations and the function then returns a result or raises from the
\* single-page fallback.
C26_CrawlTerminates ==
    <>(crPc = "done" /\ crResult.kind \in {"crawl", "single_page", "raised"})

\* The crawl ended on its page budget with links left in the queue.
C26_Witness ==
    /\ crPc = "done"
    /\ crCrawled = crMax
    /\ crPending # <<>>

\* C27: in every state of a crawl the pending queue holds at most
\* 3 * max_pages URLs.
C27_QueueWithinCap == Len(crPending) <= 3 * crMax

-----------------------------------------------------------------------------
(* Properties of the orchestrator run *)

WriteAttempted(status) == \E i \in 1..Len(writes) : writes[i].status = status

WritesDone(status) == {i \in 1..Len(writes) : writes[i].status = status /\ writes[i].ok}

\* A Gemini call of the enhanced-analysis or the synthesis round raised an
\* error that is not a transient-overload signal.
FatalLlmError ==
    \/ enhanced.kind = "error" /\ enhanced.error \in LlmErrors
                               /\ ~IsRetryable(enhanced.error)
    \/ synthesis.kind = "error" /\ synthesis.error \in LlmErrors
                                /\ ~IsRetryable(synthesis.error)

\* C6: every block the orchestrator writes to analysis_blocks of the document
\* has a type of the ten-value enum.
C6_StoredBlockTypesInEnum ==
    \A i \in 1..Len(doc.blocks) : doc.blocks[i].type \in ValidTypes

\* C7: a run in which a pipeline step raised an exception ends Failed: a
\* 'failed' status write was attempted and the returned result has
\* success=false with the error message, the elapsed time and the tool-usage
\* log.
C7_ExceptionEndsFailed ==
    (pc = "responded" /\ raised # {}) =>
        /\ WriteAttempted("failed")
        /\ ~result.success
        /\ result.error # ""
        /\ {"processing_time", "tool_usage"} \subseteq result.keys

\* C8: the response code is 200 exactly when the body has success=true and
\* 500 exactly when it has success=false.
C8_StatusCodeMatchesSuccess ==
    pc = "responded" =>
        /\ (http.code = 200) <=> http.success
        /\ (http.code = 500) <=> ~http.success

\* C9: a run that returns success=true has written the 'completed' analysis
\* result to the document exactly once, and a run whose final update failed
\* neither reports success nor leaves the document in status 'analyzing'.
C9_SuccessMeansWrittenOnce ==
    pc = "responded" =>
        /\ http.success => Cardinality(WritesDone("completed")) = 1
        /\ "persist" \in raised =>
              /\ ~http.success
              /\ doc.status # "analyzing"

\* C10: after an LLM error that is not a transient-overload signal the
\* document status is never set to 'completed' and the run does not return
\* success=true.
C10_FatalLlmErrorEndsFailed ==
    FatalLlmError =>
        /\ doc.status # "completed"
        /\ ~(pc = "responded" /\ http.success)

-----------------------------------------------------------------------------
(* Properties of the trigger payload *)

\* C11: in either function the event shape and the HTTP shape of the same
\* values resolve to the same tuple, and a payload whose document id or url
\* is absent or empty makes the run fail with a validation error, nothing
\* having been fetched, asked of the model or written.
C11_PayloadShapesResolveAlike ==
    \A f \in Functions :
        /\ (\A t \in Triggers : resolved[f][t].outcome = "extracted") =>
              resolved[f]["event"].tuple = resolved[f]["http"].tuple
        /\ \A t \in Triggers :
              (resolved[f][t] # NotResolved
               /\ ~(Truthy(payload.id) /\ Truthy(payload.url))) =>
                  /\ resolved[f][t].outcome = "error"
                  /\ ~resolved[f][t].success
                  /\ resolved[f][t].effects = {}

-----------------------------------------------------------------------------
(* Properties of the analyzer's main *)

AnFailedWriteAttempted ==
    \E i \in 1..Len(anWrites) : anWrites[i].status = "failed"

AnNoEffects == anReads = 0 /\ anWrites = <<>> /\ anCalls = 0

\* C12: every run that fails after the document id was resolved, under any of
\* the field names documentId, document_id and $id, has attempted a 'failed'
\* status write by the time it answers with the error response.
C12_FailedRunAttemptsFailedWrite ==
    (anPc = "done" /\ anResp.kind = "failed"
     /\ ResolveDocumentId(anReq) # "none") => AnFailedWriteAttempted

\* C19: a request that carries no document id under any field name, the
\* empty body object included, is answered with success false and an error
\* naming the missing field documentId, with no store read, no store write
\* and no model call.
C19_MissingDocumentIdRejected ==
    (anPc = "done" /\ anReq.trigger = "http" /\ anReq.form = "dict"
     /\ anReq.idKey = "none") =>
        /\ ~anResp.success
        /\ anResp.error = "Missing required field: documentId"
        /\ AnNoEffects

\* C20: a fetched document whose scraped_content is empty ends the run with
\* success false and the missing-content classification: the message reports
\* that no content is available, the error is not retryable, the suggested
\* action is rescrape, and the model was never called.
C20_EmptyContentClassified ==
    (anPc = "done" /\ anReads > 0 /\ anDoc.db = "ok"
     /\ anDoc.content = "empty") =>
        /\ ~anResp.success
        /\ anResp.message = Categorize("No scraped content available for analysis").message
        /\ ~anResp.retryable
        /\ anResp.action = "rescrape"
        /\ anCalls = 0

-----------------------------------------------------------------------------
(* Properties of the crawl *)

NoRepeat(seq) == \A i, j \in 1..Len(seq) : seq[i] = seq[j] => i = j

FetchedUrls == [i \in 1..Len(crFetched) |-> crFetched[i].url]

\* C13: in every state of the traversal the number of pages fetched is at
\* most max_pages, and the pages_crawled value and the page list of the
\* returned result are at most max_pages.
C13_PageBudgetKept ==
    /\ crCrawled <= crMax
    /\ Len(crFetched) <= crMax
    /\ crResult.kind = "crawl" =>
          /\ crResult.pages_crawled <= crMax
          /\ Len(crResult.pages) <= crMax

\* The page budget ended a crawl of more than one page with urls still pending.
C13_Witness ==
    /\ crPc = "done" /\ crResult.kind = "crawl"
    /\ crMax > 1 /\ crCrawled = crMax
    /\ crResult.pages_crawled = crMax
    /\ crPending # <<>>

\* How often the crawl has fetched url u: in the traversal, and as the seed
\* of the single-page fallback.
TimesFetched(u) ==
    Cardinality({i \in 1..Len(crFetched) : crFetched[i].url = u})
    + (IF u = Seed THEN crResult.fallbacks ELSE 0)

\* C14: one crawl fetches no url twice: a visited url is never fetched again,
\* and no url that is visited or pending is appended to the pending queue, so
\* the queue holds no url twice and no visited url.
C14_NoUrlFetchedTwice ==
    /\ \A u \in SiteUrls : TimesFetched(u) <= 1
    /\ NoRepeat(crPending)
    /\ Elements(crPending) \cap crVisited = {}

\* The traversal's part of C14, which holds in every state.
TraversalFetchesOnce ==
    /\ NoRepeat(FetchedUrls)
    /\ NoRepeat(crPending)
    /\ Elements(crPending) \cap crVisited = {}
    /\ Elements(FetchedUrls) = crVisited

\* C15: a crawl with max_pages = 1 fetches the seed and nothing else in the
\* traversal and appends no link to the pending queue.
C15_SinglePageCrawl ==
    crMax = 1 =>
        /\ crEnqueued = {}
        /\ Elements(FetchedUrls) \subseteq {Seed}
        /\ crPc # "loop" => FetchedUrls = <<Seed>> /\ crPending = <<>>

\* The seed of a crawl with max_pages = 1 was stored and links to another
\* page of the site.
C15_Witness ==
    /\ crMax = 1 /\ crPc = "done"
    /\ crPages = <<Seed>>
    /\ \E i \in 1..Len(crLinks) : crLinks[i] \in SiteUrls \ {Seed}

\* C16: once more than 300 seconds have elapsed no url is fetched and no url
\* is appended to the pending queue, the links of the page whose fetch was
\* under way when the budget ran out included.
C16_NothingAfterTimeBudget ==
    /\ \A i \in 1..Len(crFetched) : crFetched[i].at <= TimeBudget
    /\ \A e \in crEnqueued : e.at <= TimeBudget

-----------------------------------------------------------------------------
(* Properties of smart_fetch_html *)

EveryRequestFailed == \A i \in 1..Len(sfLog) : sfLog[i].outcome.kind # "ok"

\* C17: smart_fetch_html never raises: whatever its requests do (raise,
\* answer another status than 200, answer 200 with a small or a full body)
\* it returns a triple, and when every request fails and no rendering API
\* key is set the body is null and rendering-attempted is true.
C17_FetchNeverRaises ==
    /\ ~sfRaised
    /\ sfPc = "done" =>
          /\ sfHtml \in {None} \cup BodySizes
          /\ sfMethod \in FetchMethods
          /\ sfTried \in BOOLEAN
          /\ (EveryRequestFailed /\ ~sfKey) => (sfHtml = None /\ sfTried)

\* Without an API key the three profiles and the free service all failed,
\* one of them with an exception.
C17_Witness ==
    /\ sfPc = "done" /\ ~sfKey
    /\ Len(sfLog) = Len(Strategies) + 1
    /\ EveryRequestFailed
    /\ \E i \in 1..Len(sfLog) : sfLog[i].outcome.kind = "exception"
    /\ sfHtml = None /\ sfTried

\* C18: the body returned is the largest one any request of the call
\* answered with status 200: none of them had a longer body.
C18_LargestBodyReturned ==
    sfPc = "done" =>
        \A i \in 1..Len(sfLog) :
            sfLog[i].outcome.kind = "ok" =>
                sfLog[i].outcome.len <= BodyLen(sfHtml)

-----------------------------------------------------------------------------
(* Properties of optimize_content_for_analysis *)

\* C21: what optimize_content_for_analysis returns is never longer than its
\* argument, arguments over the limit of 50000 characters included.
C21_OptimizedNoLonger ==
    ocPc = "done" => ContentLen(ocOut) <= ContentLen(ocIn.runs)

-----------------------------------------------------------------------------
(* Properties of the signup-credits function *)

CountAsZero(c) == IF c.kind \in {"absent", "none"} THEN 0 ELSE c.n

Succeeded == {i \in Invocations : suRun[i].pc = "done" /\ suRun[i].success}

\* C22: an update that succeeds has written the credits it read plus 10,
\* absent and None credits counting as 0, and one more history entry; a
\* user whose credits are absent or None gets 10 credits unless the write
\* itself fails; and an update that fails has written nothing.
C22_CreditsPlusTen ==
    \A i \in Invocations :
        suRun[i].pc = "done" =>
            /\ suRun[i].success =>
                  /\ suRun[i].service = "ok"
                  /\ suRun[i].written.credits =
                        Credits(CountAsZero(suRun[i].prefs.credits) + CreditsAmount)
                  /\ suRun[i].written.history = suRun[i].prefs.history + 1
            /\ ~suRun[i].success => suRun[i].service # "ok"
            /\ (suRun[i].prefs.credits.kind \in {"absent", "none"}
                /\ suRun[i].service # "error") =>
                  /\ suRun[i].success
                  /\ suRun[i].written.credits = Credits(CreditsAmount)

\* C30: when every invocation that ran has returned, having read the stored
\* preferences, the stored credits are the initial ones plus 10 for each
\* invocation that succeeded, and the history has one entry more for each.
C30_NoLostUpdate ==
    (/\ \A i \in Invocations : suRun[i].pc \in {"start", "done"}
     /\ \A i \in Succeeded : suRun[i].prefs = suRun[i].seen
     /\ Succeeded # {}) =>
        /\ suStore.credits = Credits(CountAsZero(suInitial.credits)
                                     + CreditsAmount * Cardinality(Succeeded))
        /\ suStore.history = suInitial.history + Cardinality(Succeeded)

\* C28: the combined content of a crawl result never exceeds 75000
\* characters, and once a page has been truncated to fit the budget no
\* further header or page content is appended.
C28_CombinedWithinBudget ==
    ccPc = "done" =>
        /\ JoinedLength(ccOut) <= MaxCombinedLength
        /\ \A i \in 1..Len(ccOut) : ccOut[i].kind = "truncated" => i = Len(ccOut)

\* The analyzer runs started so far.
StartedRuns == {w \in ScraperWrites : plRuns[w] \notin {"none", "event", "skipped"}}

\* C29: a document whose status was written 'completed' or 'failed' is never
\* overwritten afterwards (its status is not reset to 'analyzing', its
\* blocks are not replaced by the placeholder, 'failed' does not become
\* 'completed'), and at most one analyzer run is started per document.
C29_TerminalStatusKept ==
    /\ [](Cardinality(StartedRuns) <= 1)
    /\ [][plDoc.status \in {"completed", "failed"} => plDoc' = plDoc]_vars

=============================================================================
